---- MODULE Spec2Model ----
(***************************************************************************)
(* State-machine model of the cog-ir graph builder: the BlockStore         *)
(* (src/src/block.rs) and the Builder / BuildSession protocol              *)
(* (src/src/builder.rs).  One action per public BuildSession method; the   *)
(* closures handed to def_subgraph / def_loop run between an "open" and a  *)
(* "close" action, which are the code before and after the call f(..).     *)
(***************************************************************************)
EXTENDS Integers, Sequences, FiniteSets, TLC

\* ---------------------------------------------------------------- bounds
\* Declared blocks (the start block included), nesting depth of sessions,
\* blocks entered, non-terminal instructions and input edges of a build.
MaxBlocks == 3
MaxDepth == 3
MaxEnters == 3
MaxBody == 1
MaxEdges == 2
\* Phis of a block and phi arguments of an edge, and the declared blocks of
\* the builds in which the client uses them.
MaxPhis == 1
MaxPhiBlocks == 2
MaxPhiBody == 2
\* The declared blocks and non-terminal instructions of the builds with phis
\* in more than one block.
MaxPhiDebugBlocks == 3
MaxPhiDebugBody == 1
\* Largest of the small values the codec is run on.
MaxLebValue == 300

\* ------------------------------------------------------------- constants
\* u32::max_value(), the "unset" value of order, first_instr and last_instr.
Unset == -1

\* BlockState, in the derived order of the enum.
Declared == 0
Entered == 1
Finished == 2
LoopComplete == 3

\* InstrStore::MAX_INSTR_BYTES, the cap on the instruction bytes.
MAX_INSTR_BYTES == 16777215

\* BlockStore::MAX_DECL_BLOCKS
MAX_DECL_BLOCKS == 16777215

VARIABLES
    debug,            \* cfg(debug_assertions): debug_assert! is compiled in
    phase,            \* "building" | "built" | "fatal"
    decl_blocks,      \* BlockStore.decl_blocks
    rpo_index,        \* BlockStore.rpo_index
    cur_block_id,     \* BlockStore.cur_block_id
    instrs,           \* the emitted instructions, in emission order
    total_phis,       \* BlockStore.total_phis
    num_phis,         \* BlockStore.num_phis
    subgraph_decls,   \* Builder.subgraph_decls
    sessions,         \* the stack of live BuildSessions, root first
    fatal,            \* the call that panicked and the check that failed
    codec,            \* a run of the byte encoders and decoders
    instr_bytes_len,  \* BlockStore.instr_bytes.len()
    script,           \* the calls the client closure has still to make
    instr_store,      \* the InstrStore of a Graph
    emit_log,         \* the InstrStore emissions and what they returned
    graph_session,    \* the GraphSession reading the Graph
    decl_run          \* a run of BlockStore::decl_block on a long table

\* The InstrStore of a Graph with its reader, and the decl_block run.
graph_vars == <<instr_store, emit_log, graph_session, decl_run>>

vars == <<debug, phase, decl_blocks, rpo_index, cur_block_id, instrs,
          total_phis, num_phis, subgraph_decls, sessions, fatal, codec,
          instr_bytes_len, script, graph_vars>>

\* ------------------------------------------------------------ Block
\* Block::new.  owner is the depth of the BuildSession that declared the
\* block (the scope its BlockRef<'a> lives in): 1 for the root session,
\* NoOwner for the block the BlockStore declares itself, Closed once the
\* declaring def_subgraph / def_loop scope has ended.
NoOwner == -1
Closed == 0

NewBlock(id, variant, num_phis_decl, owner) ==
    [id |-> id, variant |-> variant, num_phis |-> num_phis_decl,
     state |-> Declared, input_edges |-> 0, order |-> Unset,
     first_instr |-> Unset, last_instr |-> Unset, owner |-> owner]

get_block(id) == decl_blocks[id + 1]

is_start(b) == b.variant = "Start"
is_loop(b) == b.variant = "Loop"
has_entered(b) == b.state >= Entered
has_finished(b) == b.state >= Finished
has_loop_complete(b) == b.state >= LoopComplete

set_entered(b, order, first_instr) ==
    [b EXCEPT !.state = Entered, !.first_instr = first_instr, !.order = order]

\* A set_add_instr that also marks the block Finished.
set_add_instr_Finishing(b, last_instr) ==
    [b EXCEPT !.state = Finished, !.last_instr = last_instr]

set_add_instr(b, last_instr) == [b EXCEPT !.last_instr = last_instr]

\* A set_finished that leaves last_instr as the last set_add_instr set it.
set_finished_KeepLast(b, last_instr) == [b EXCEPT !.state = Finished]

set_finished(b, last_instr) ==
    [b EXCEPT !.state = Finished, !.last_instr = last_instr]

set_loop_complete(b) == [b EXCEPT !.state = LoopComplete]

incr_input_edges(b) == [b EXCEPT !.input_edges = b.input_edges + 1]

\* ------------------------------------------------------------ BlockStore
front_instr_no == Len(instrs)

BlockIds == 0 .. (Len(decl_blocks) - 1)

\* BlockStore::enter_block applied to the block table.
enter_block(blocks, id) ==
    [blocks EXCEPT ![id + 1] = set_entered(@, Len(rpo_index), front_instr_no)]

\* ------------------------------------------------------------ BuildSession
NewSession(cur_block, kind, loop_block) ==
    [cur_block |-> cur_block,
     subgraph_start |-> Len(subgraph_decls), subgraph_entered |-> 0,
     kind |-> kind, loop_block |-> loop_block]

Depth == Len(sessions)
Top == sessions[Depth]

get_cur_block == get_block(Top.cur_block)

subgraph_decls_len == Len(subgraph_decls)
subgraph_cur_end == Top.subgraph_start + Top.subgraph_entered
subgraph_complete == subgraph_cur_end = subgraph_decls_len

\* The BlockRefs the innermost session's closure can name: a BlockRef<'a>
\* only reaches code inside the scope of the session that declared it, and
\* the start block's BlockRef is never handed to the client.
VisibleRefs == {id \in BlockIds : get_block(id).owner \in 1 .. Depth}

\* ------------------------------------------------------------ outcomes
NoFatal == [op |-> "none", blk |-> -1, tgts |-> <<>>, why |-> "none"]

Building == phase = "building"

\* The client closure: the calls it has still to make, in order, or any
\* calls at all (name "none").
NoScript == [name |-> "none", calls |-> <<>>]
Scripted == script.name # "none"

\* The closure after the call it is making.
Advance == IF Scripted THEN [script EXCEPT !.calls = Tail(@)] ELSE script

\* The BlockRefs the client passes to def_block / def_loop: the one its
\* script names, or any that it can name.
BlockArgs ==
    IF Scripted
    THEN {id \in VisibleRefs : script.calls # <<>> /\ id = Head(script.calls).n}
    ELSE VisibleRefs

\* A failed assert!, debug_assert! or panic!: the panic unwinds out of
\* Builder::build, which drops the Builder and every session.  What is left
\* is the diagnostic: the call (op with its block and target arguments)
\* and the check that failed.
Fatal(op, blk, tgts, why) ==
    /\ phase' = "fatal"
    /\ fatal' = [op |-> op, blk |-> blk, tgts |-> tgts, why |-> why]
    /\ decl_blocks' = <<>>
    /\ rpo_index' = <<>>
    /\ cur_block_id' = 0
    /\ instrs' = <<>>
    /\ subgraph_decls' = <<>>
    /\ sessions' = <<>>
    /\ total_phis' = 0
    /\ num_phis' = 0
    /\ instr_bytes_len' = 0
    /\ script' = Advance
    /\ UNCHANGED <<debug, codec, graph_vars>>

\* No encoder or decoder is running.
NoCodec == [pc |-> "none"]

\* No GraphSession is open; no decl_block run is under way.
NoRun == [pc |-> "none"]

\* The builder with a start block that BlockStore::new declared but did not
\* enter.
BuilderInit_StartDeclared ==
    /\ debug \in BOOLEAN
    /\ phase = "building"
    /\ decl_blocks = <<NewBlock(0, "Start", 0, NoOwner)>>
    /\ rpo_index = <<>>
    /\ cur_block_id = 0
    /\ instrs = <<>>
    /\ total_phis = 0
    /\ num_phis = 0
    /\ subgraph_decls = <<>>
    /\ sessions = <<[cur_block |-> 0, subgraph_start |-> 0,
                     subgraph_entered |-> 0, kind |-> "root",
                     loop_block |-> -1]>>
    /\ fatal = NoFatal

\* The builder as Builder::build hands it to the client closure: the
\* BlockStore has declared and entered the start block.
BuilderInit ==
    /\ debug \in BOOLEAN
    /\ phase = "building"
    /\ decl_blocks = <<set_entered(NewBlock(0, "Start", 0, NoOwner), 0, 0)>>
    /\ rpo_index = <<0>>
    /\ cur_block_id = 0
    /\ instrs = <<>>
    /\ total_phis = 0
    /\ num_phis = 0
    /\ subgraph_decls = <<>>
    /\ sessions = <<[cur_block |-> 0, subgraph_start |-> 0,
                     subgraph_entered |-> 0, kind |-> "root",
                     loop_block |-> -1]>>
    /\ fatal = NoFatal

\* The instruction bytes of BlockStore::new, and a client that makes any
\* calls.
AnyClient == instr_bytes_len = 0 /\ script = NoScript

\* No Graph has been made and no decl_block run is under way.
NoGraph ==
    /\ instr_store = [lead |-> 0, instr_bytes |-> <<>>]
    /\ emit_log = <<>>
    /\ graph_session = NoRun
    /\ decl_run = NoRun

Init == BuilderInit /\ AnyClient /\ codec = NoCodec /\ NoGraph

\* ------------------------------------------------------------ declarations
\* A decl_block without the limit.
decl_block_check_NoLimit(len) == "ok"

\* The check of BlockStore::decl_block on the length len of decl_blocks.
decl_block_check(len) ==
    IF len >= MAX_DECL_BLOCKS THEN "TooManyBlocks" ELSE "ok"

DeclBlock(variant, num_phis_decl, maxBlocks) ==
    /\ Building
    /\ Len(decl_blocks) < maxBlocks
    /\ IF decl_block_check(Len(decl_blocks)) = "ok"
       THEN /\ LET id == Len(decl_blocks) IN
                /\ decl_blocks' = Append(decl_blocks,
                       NewBlock(id, variant, num_phis_decl, Depth))
                /\ subgraph_decls' = Append(subgraph_decls, id)
            /\ total_phis' = total_phis + num_phis_decl
            /\ script' = Advance
            /\ UNCHANGED <<debug, codec, graph_vars, instr_bytes_len,
                           num_phis, phase, rpo_index, cur_block_id,
                           instrs, sessions, fatal>>
       ELSE Fatal("decl_block", -1, <<>>, decl_block_check(Len(decl_blocks)))

\* phis: the phi counts the client uses; maxBlocks: how many blocks it
\* declares at most.
decl_plain_block(phis, maxBlocks) ==
    \E n \in phis : DeclBlock("Plain", n, maxBlocks)
decl_start_block(maxBlocks) == DeclBlock("Start", 0, maxBlocks)
decl_loop_head(phis, maxBlocks) ==
    \E n \in phis : DeclBlock("Loop", n, maxBlocks)

\* ------------------------------------------------------------ def_block
\* What the get_unchecked read of BuildSession::next_spec_block can return.
\* Past the end of subgraph_decls the read is of memory the vector never
\* initialised: any id, one of the declared blocks or none of them.
next_spec_block ==
    IF subgraph_cur_end < subgraph_decls_len
    THEN {subgraph_decls[subgraph_cur_end + 1]}
    ELSE BlockIds \cup {Len(decl_blocks)}

\* def_block_impl without its first assertion, that the current block has
\* finished.
def_block_impl_check_NoFinished(block, nsb) ==
    IF debug /\ ~(subgraph_cur_end < subgraph_decls_len) THEN "NoNextBlock"
    ELSE IF block # nsb THEN "NotNextBlock"
    ELSE IF debug /\ has_entered(get_block(block)) THEN "AlreadyEntered"
    ELSE IF debug /\ (\E i \in 1 .. Len(rpo_index) : rpo_index[i] = block)
         THEN "AlreadyInRpo"
    ELSE "ok"

\* A def_block_impl whose first assertion is content with a current block
\* that has been entered.
def_block_impl_check_EnteredSuffices(block, nsb) ==
    IF ~has_entered(get_cur_block) THEN "CurUnfinished"
    ELSE def_block_impl_check_NoFinished(block, nsb)

\* The first check of def_block_impl (with next_spec_block and
\* enter_block) that fails, "ok" if none does; nsb is the id that
\* next_spec_block returned.
def_block_impl_check(block, nsb) ==
    IF ~has_finished(get_cur_block) THEN "CurUnfinished"
    ELSE IF debug /\ ~(subgraph_cur_end < subgraph_decls_len) THEN "NoNextBlock"
    ELSE IF block # nsb THEN "NotNextBlock"
    ELSE IF debug /\ has_entered(get_block(block)) THEN "AlreadyEntered"
    ELSE IF debug /\ (\E i \in 1 .. Len(rpo_index) : rpo_index[i] = block)
         THEN "AlreadyInRpo"
    ELSE "ok"

\* def_block without its assertion that the block is not a loop head.
def_block_check_NoLoopTest(block, nsb) == def_block_impl_check(block, nsb)

\* The checks of def_block: its own, then those of def_block_impl.
def_block_check(block, nsb) ==
    IF is_loop(get_block(block)) THEN "IsLoop"
    ELSE def_block_impl_check(block, nsb)

\* A def_block_impl that counts the block but keeps the session's cur_block.
def_block_impl_session_KeepCur(sess, block) ==
    [sess EXCEPT !.subgraph_entered = sess.subgraph_entered + 1]

\* The session after def_block_impl.
def_block_impl_session(sess, block) ==
    [sess EXCEPT !.cur_block = block,
                 !.subgraph_entered = sess.subgraph_entered + 1]

def_block ==
    /\ Building
    /\ \E block \in BlockArgs, nsb \in next_spec_block :
        IF def_block_check(block, nsb) = "ok"
        THEN /\ Scripted \/ Len(rpo_index) < MaxEnters
             /\ decl_blocks' = enter_block(decl_blocks, block)
             /\ rpo_index' = Append(rpo_index, block)
             /\ cur_block_id' = block
             /\ sessions' = [sessions EXCEPT ![Depth] =
                                def_block_impl_session(@, block)]
             /\ script' = Advance
             /\ UNCHANGED <<debug, codec, graph_vars, instr_bytes_len,
                            total_phis, num_phis, phase, instrs,
                            subgraph_decls, fatal>>
        ELSE Fatal("def_block", block, <<>>, def_block_check(block, nsb))

\* ------------------------------------------------------------ def_subgraph
\* def_subgraph up to the call of the closure f.
def_subgraph_open ==
    /\ Building
    /\ Scripted \/ Depth < MaxDepth
    /\ sessions' = Append(sessions, NewSession(Top.cur_block, "sub", -1))
    /\ script' = Advance
    /\ UNCHANGED <<debug, codec, graph_vars, instr_bytes_len,
                   total_phis, num_phis, phase, decl_blocks,
                   rpo_index, cur_block_id, instrs, subgraph_decls, fatal>>

get_subgraph_block(offset) ==
    get_block(subgraph_decls[Top.subgraph_start + offset + 1])

\* assert_complete without its assertion that the subgraph is complete.
assert_complete_NoCount ==
    IF \E i \in 0 .. (Top.subgraph_entered - 2) :
          ~has_finished(get_subgraph_block(i))
    THEN "SubgraphUnfinished"
    ELSE "ok"

\* BuildSession::assert_complete: the first check that fails, or "ok".
assert_complete ==
    IF ~subgraph_complete THEN "SubgraphIncomplete"
    ELSE IF \E i \in 0 .. (Top.subgraph_entered - 2) :
               ~has_finished(get_subgraph_block(i))
         THEN "SubgraphUnfinished"
    ELSE "ok"

\* The session stack after the child scope has closed, the parent keeping
\* the cur_block it had.
PopSession_KeepParent == SubSeq(sessions, 1, Depth - 1)

\* The session stack after the child scope has closed: the parent adopts
\* the child's cur_block.
PopSession ==
    [i \in 1 .. (Depth - 1) |->
        IF i = Depth - 1
        THEN [sessions[i] EXCEPT !.cur_block = Top.cur_block]
        ELSE sessions[i]]

\* The block table (or the instruction log) once the innermost scope has
\* ended: the BlockRefs (the TypedDefns) it handed out are dead.
EndScope(blocks) ==
    [i \in 1 .. Len(blocks) |->
        IF blocks[i].owner = Depth
        THEN [blocks[i] EXCEPT !.owner = Closed]
        ELSE blocks[i]]

\* def_subgraph from the return of the closure f.
def_subgraph_close ==
    /\ Building
    /\ Top.kind = "sub"
    /\ IF assert_complete = "ok"
       THEN /\ sessions' = PopSession
            /\ decl_blocks' = EndScope(decl_blocks)
            /\ instrs' = EndScope(instrs)
            /\ script' = Advance
            /\ UNCHANGED <<debug, codec, graph_vars, instr_bytes_len,
                           total_phis, num_phis, phase,
                           rpo_index, cur_block_id, subgraph_decls, fatal>>
       ELSE Fatal("def_subgraph_close", -1, <<>>, assert_complete)

\* ------------------------------------------------------------ def_loop
def_loop_check(loop_block, nsb) ==
    IF ~is_loop(get_block(loop_block)) THEN "NotLoop"
    ELSE def_block_impl_check(loop_block, nsb)

\* def_loop up to the call of the closure f.
def_loop_open ==
    /\ Building
    /\ Scripted \/ Depth < MaxDepth
    /\ \E loop_block \in BlockArgs, nsb \in next_spec_block :
        IF def_loop_check(loop_block, nsb) = "ok"
        THEN /\ Scripted \/ Len(rpo_index) < MaxEnters
             /\ decl_blocks' = enter_block(decl_blocks, loop_block)
             /\ rpo_index' = Append(rpo_index, loop_block)
             /\ cur_block_id' = loop_block
             /\ sessions' =
                  Append([sessions EXCEPT ![Depth] =
                              def_block_impl_session(@, loop_block)],
                         NewSession(loop_block, "loop", loop_block))
             /\ script' = Advance
             /\ UNCHANGED <<debug, codec, graph_vars, instr_bytes_len,
                            total_phis, num_phis, phase, instrs,
                            subgraph_decls, fatal>>
        ELSE Fatal("def_loop", loop_block, <<>>, def_loop_check(loop_block, nsb))

finish_loop(blocks, id) ==
    [blocks EXCEPT ![id + 1] = set_loop_complete(@)]

\* The checks made from the return of f to the end of def_loop: those of
\* the loop closure and finish_loop, then assert_complete.
def_loop_close_check ==
    IF ~has_finished(get_cur_block) THEN "LoopBodyUnfinished"
    ELSE IF debug /\ ~has_finished(get_block(Top.loop_block))
         THEN "LoopHeadUnfinished"
    ELSE IF debug /\ ~is_loop(get_block(Top.loop_block)) THEN "NotLoop"
    ELSE assert_complete

\* def_loop from the return of the closure f.
def_loop_close ==
    /\ Building
    /\ Top.kind = "loop"
    /\ IF def_loop_close_check = "ok"
       THEN /\ decl_blocks' = EndScope(finish_loop(decl_blocks, Top.loop_block))
            /\ sessions' = PopSession
            /\ instrs' = EndScope(instrs)
            /\ script' = Advance
            /\ UNCHANGED <<debug, codec, graph_vars, instr_bytes_len,
                           total_phis, num_phis, phase,
                           rpo_index, cur_block_id, subgraph_decls, fatal>>
       ELSE Fatal("def_loop_close", Top.loop_block, <<>>, def_loop_close_check)

\* ------------------------------------------------------------ emitters
TerminalOps == {"Ret", "Jump", "Branch"}
InstrOps == {"Nop", "Const", "Cmp", "Bini"}

\* The operations whose emitter returns a TypedDefn: every non-terminal
\* but Nop.
ValueOps == {"Phi", "Const", "Cmp", "Bini"}

\* Operation::num_operands.
num_operands(op) ==
    CASE op \in {"Cmp", "Bini"} -> 2
      [] op \in {"Ret", "Branch"} -> 1
      [] OTHER -> 0

\* The instruction the store appends: its number is its position in the
\* log, counted from 0.  owner is the depth of the session whose emitter
\* returned the instruction's TypedDefn<'bs, _> (Closed when the emitter
\* returns none, or once that session's scope has ended).
NewInstr(op, inputs, tgts) ==
    [blk |-> cur_block_id, op |-> op, inputs |-> inputs, tgts |-> tgts,
     owner |-> IF op \in ValueOps THEN Depth ELSE Closed]

\* The number of the j-th instruction appended: the store took it before
\* the push.
take_instr_no_AfterPush(j) == j

\* BlockStore::take_instr_no: the number of the j-th instruction appended,
\* the length of instr_posns before the push.
take_instr_no(j) == j - 1

\* The definitions the innermost session's closure can name: a
\* TypedDefn<'a, T> only reaches code inside the scope of the session whose
\* emitter returned it (cast() gives it any type T).
VisibleDefs ==
    {take_instr_no(j) :
        j \in {i \in 1 .. Len(instrs) : instrs[i].owner \in 1 .. Depth}}

\* The operand lists of n definitions a client can pass.
DefLists(n) == IF n = 0 THEN {<<>>} ELSE [1 .. n -> VisibleDefs]

\* Number of non-terminal instructions emitted so far.
BodyLen == Cardinality({i \in 1 .. Len(instrs) : instrs[i].op \notin TerminalOps})

RECURSIVE SumEdges(_, _)
SumEdges(blocks, i) ==
    IF i > Len(blocks) THEN 0
    ELSE blocks[i].input_edges + SumEdges(blocks, i + 1)

\* Number of input edges counted so far, over all blocks.
NumEdges == SumEdges(decl_blocks, 1)

RECURSIVE targets_len(_, _)
\* The bytes of the (target, phi list) pairs from index i on: the block id,
\* the number of phi arguments and each argument, one byte each.
targets_len(tgts, i) ==
    IF i > Len(tgts) THEN 0
    ELSE 2 + Len(tgts[i].phis) + targets_len(tgts, i + 1)

\* The bytes Instr::send_instr / EndInstr::send_end write for an
\* instruction: the opcode byte, the payload, the inputs and the targets.
\* The payloads and ids of the builds modelled take one byte each.
send_instr_len(op, inputs, tgts) ==
    1 + (IF op \in ValueOps THEN 1 ELSE 0) + Len(inputs) + targets_len(tgts, 1)

\* Instr::send_instr / EndInstr::send_end give none: the encoding would
\* take the stream past the cap.
send_instr_none(op, inputs, tgts) ==
    instr_bytes_len + send_instr_len(op, inputs, tgts) > MAX_INSTR_BYTES

\* TerminalOperation::num_targets.
num_targets(op) ==
    CASE op = "Branch" -> 2
      [] op = "Jump" -> 1
      [] OTHER -> 0

\* InstrObj::new and EndInstrObj::new without their assertions.
InstrObj_new_Unchecked(op, inputs, tgts) == "ok"

\* The assertions of InstrObj::new and EndInstrObj::new (tgts is empty for
\* an InstrObj).
InstrObj_new(op, inputs, tgts) ==
    IF num_operands(op) # Len(inputs) THEN "OperandCount"
    ELSE IF op \in TerminalOps /\ num_targets(op) # Len(tgts)
         THEN "TargetCount"
    ELSE "ok"

\* What an emitter does when its checks give check: once the assert! of the
\* BuildSession has passed the instruction object is made, the BlockStore
\* sends its encoding, and the public emitter unwraps what comes back.
emit_outcome(check, op, inputs, tgts) ==
    IF check = "CurFinished" THEN check
    ELSE IF InstrObj_new(op, inputs, tgts) # "ok"
         THEN InstrObj_new(op, inputs, tgts)
    ELSE IF send_instr_none(op, inputs, tgts) THEN "Overflow"
    ELSE check

\* The checks of BuildSession::emit_instr and BlockStore::emit_instr.
emit_instr_check ==
    IF has_finished(get_cur_block) THEN "CurFinished"
    ELSE IF debug /\ ~has_entered(get_block(cur_block_id)) THEN "NotEntered"
    ELSE IF debug /\ has_finished(get_block(cur_block_id)) THEN "StoreFinished"
    ELSE "ok"

\* BuildSession::emit_instr with BlockStore::emit_instr.
EmitInstr(call, op, inputs, maxBody) ==
    /\ Building
    /\ IF emit_outcome(emit_instr_check, op, inputs, <<>>) = "ok"
       THEN /\ BodyLen < maxBody
            /\ instrs' = Append(instrs, NewInstr(op, inputs, <<>>))
            /\ instr_bytes_len' =
                 instr_bytes_len + send_instr_len(op, inputs, <<>>)
            /\ decl_blocks' = [decl_blocks EXCEPT ![cur_block_id + 1] =
                                  set_add_instr(@, front_instr_no)]
            /\ script' = Advance
            /\ UNCHANGED <<debug, codec, graph_vars, total_phis, num_phis,
                           phase, rpo_index, cur_block_id, subgraph_decls,
                           sessions, fatal>>
       ELSE Fatal(call, cur_block_id, <<>>,
                  emit_outcome(emit_instr_check, op, inputs, <<>>))

\* emit_nop, emit_const_*, emit_cmp and emit_bini (with their shorthands).
emit_instr(maxBody) ==
    \E op \in InstrOps : \E inputs \in DefLists(num_operands(op)) :
        EmitInstr("emit_instr", op, inputs, maxBody)

\* BlockStore::take_phi_no: the number handed out.
take_phi_no == num_phis

\* The check of BlockStore::emit_phi that the phis of the current block are
\* not exhausted, on the phi number phi_no it took.
phi_exhausted(phi_no) == ~(phi_no < get_block(cur_block_id).num_phis)

\* The checks of BuildSession::emit_phi and BlockStore::emit_phi.
emit_phi_check ==
    IF has_finished(get_cur_block) THEN "CurFinished"
    ELSE IF phi_exhausted(take_phi_no) THEN "PhiExhausted"
    ELSE emit_instr_check

\* BuildSession::emit_phi with BlockStore::emit_phi.
emit_phi(maxBody) ==
    /\ Building
    /\ IF emit_outcome(emit_phi_check, "Phi", <<>>, <<>>) = "ok"
       THEN /\ BodyLen < maxBody
            /\ num_phis' = num_phis + 1
            /\ instrs' = Append(instrs, NewInstr("Phi", <<>>, <<>>))
            /\ instr_bytes_len' =
                 instr_bytes_len + send_instr_len("Phi", <<>>, <<>>)
            /\ decl_blocks' = [decl_blocks EXCEPT ![cur_block_id + 1] =
                                  set_add_instr(@, front_instr_no)]
            /\ script' = Advance
            /\ UNCHANGED <<debug, codec, graph_vars, total_phis, phase,
                           rpo_index, cur_block_id, subgraph_decls, sessions,
                           fatal>>
       ELSE Fatal("emit_phi", cur_block_id, <<>>,
                  emit_outcome(emit_phi_check, "Phi", <<>>, <<>>))

\* The target checks without the panic for a completed loop.
target_check_NoComplete(tgt) ==
    IF has_entered(get_block(tgt.blk)) /\ ~is_loop(get_block(tgt.blk))
    THEN "BackjumpNonloop"
    ELSE "ok"

\* The target checks refusing every jump to an Entered block, loop heads
\* included.
target_check_NoBackEdge(tgt) ==
    IF has_entered(get_block(tgt.blk)) THEN "BackjumpNonloop" ELSE "ok"

\* The target checks of BlockStore::emit_end on one target.
target_check(tgt) ==
    IF has_entered(get_block(tgt.blk))
    THEN IF ~is_loop(get_block(tgt.blk)) THEN "BackjumpNonloop"
         ELSE IF has_loop_complete(get_block(tgt.blk)) THEN "BackjumpComplete"
         ELSE "ok"
    ELSE "ok"

RECURSIVE targets_check(_, _)
\* The first target check that fails over the targets from index i on.
targets_check(tgts, i) ==
    IF i > Len(tgts) THEN "ok"
    ELSE IF target_check(tgts[i]) # "ok" THEN target_check(tgts[i])
    ELSE targets_check(tgts, i + 1)

\* The loop over the targets counting each target block once, however often
\* the terminal lists it.
incr_targets_Once(blocks, tgts, i) ==
    [j \in 1 .. Len(blocks) |->
        IF \E k \in i .. Len(tgts) : tgts[k].blk + 1 = j
        THEN incr_input_edges(blocks[j])
        ELSE blocks[j]]

RECURSIVE incr_targets(_, _, _)
\* The loop of BlockStore::emit_end over the targets, from index i on.
incr_targets(blocks, tgts, i) ==
    IF i > Len(tgts) THEN blocks
    ELSE incr_targets([blocks EXCEPT ![tgts[i].blk + 1] = incr_input_edges(@)],
                      tgts, i + 1)

\* The checks of BuildSession::emit_end and BlockStore::emit_end.
emit_end_check(tgts) ==
    IF has_finished(get_cur_block) THEN "CurFinished"
    ELSE IF targets_check(tgts, 1) # "ok" THEN targets_check(tgts, 1)
    ELSE IF debug /\ ~has_entered(get_block(cur_block_id)) THEN "NotEntered"
    ELSE IF debug /\ has_finished(get_block(cur_block_id)) THEN "StoreFinished"
    ELSE "ok"

\* BuildSession::emit_end with BlockStore::emit_end.
EmitEnd(call, op, inputs, tgts) ==
    /\ Building
    /\ IF emit_outcome(emit_end_check(tgts), op, inputs, tgts) = "ok"
       THEN /\ Scripted \/ NumEdges + Len(tgts) <= MaxEdges
            /\ instrs' = Append(instrs, NewInstr(op, inputs, tgts))
            /\ instr_bytes_len' =
                 instr_bytes_len + send_instr_len(op, inputs, tgts)
            /\ decl_blocks' =
                 [incr_targets(decl_blocks, tgts, 1) EXCEPT
                     ![cur_block_id + 1] = set_finished(@, front_instr_no)]
            /\ script' = Advance
            /\ UNCHANGED <<debug, codec, graph_vars, total_phis, num_phis,
                           phase, rpo_index, cur_block_id, subgraph_decls,
                           sessions, fatal>>
       ELSE Fatal(call, cur_block_id, tgts,
                  emit_outcome(emit_end_check(tgts), op, inputs, tgts))

\* The phi-argument lists a client can pass, of the lengths in phis.
PhiLists(phis) == UNION {DefLists(n) : n \in phis}

\* The (target, phi list) pairs of a terminal.
Targets(phis) == [blk : VisibleRefs, phis : PhiLists(phis)]

ret == \E inputs \in DefLists(num_operands("Ret")) :
          EmitEnd("ret", "Ret", inputs, <<>>)
jump(phis) == \E t \in Targets(phis) : EmitEnd("jump", "Jump", <<>>, <<t>>)
branch(phis) ==
    \E inputs \in DefLists(num_operands("Branch")) :
        \E t \in Targets(phis), f \in Targets(phis) :
            EmitEnd("branch", "Branch", inputs, <<t, f>>)

\* ------------------------------------------------------------ build
\* The checks of Builder::build without the assertion that every block has
\* finished.
build_check_NoFinished ==
    IF debug /\ (\E id \in BlockIds : /\ is_loop(get_block(id))
                                       /\ ~has_loop_complete(get_block(id)))
    THEN "LoopIncomplete"
    ELSE "ok"

\* The checks of Builder::build after the root closure has returned.
build_check ==
    IF \E id \in BlockIds : ~has_finished(get_block(id)) THEN "BlockUnfinished"
    ELSE IF debug /\ (\E id \in BlockIds : /\ is_loop(get_block(id))
                                           /\ ~has_loop_complete(get_block(id)))
         THEN "LoopIncomplete"
    ELSE "ok"

build ==
    /\ Building
    /\ Depth = 1
    /\ IF build_check = "ok"
       THEN /\ phase' = "built"
            /\ script' = Advance
            /\ UNCHANGED <<debug, codec, graph_vars, instr_bytes_len,
                           total_phis, num_phis, decl_blocks,
                           rpo_index, cur_block_id, instrs, subgraph_decls,
                           sessions, fatal>>
       ELSE Fatal("build", -1, <<>>, build_check)

\* The calls of a client that uses phi counts and phi-list lengths phis,
\* declares at most maxBlocks blocks and emits at most maxBody
\* non-terminal instructions.
Client(phis, maxBlocks, maxBody) ==
    \/ decl_plain_block(phis, maxBlocks)
    \/ decl_start_block(maxBlocks)
    \/ decl_loop_head(phis, maxBlocks)
    \/ def_block
    \/ def_subgraph_open
    \/ def_subgraph_close
    \/ def_loop_open
    \/ def_loop_close
    \/ emit_instr(maxBody)
    \/ emit_phi(maxBody)
    \/ ret
    \/ jump(phis)
    \/ branch(phis)
    \/ build

\* Builds without phis.
Next == Client({0}, MaxBlocks, MaxBody)

Spec == Init /\ [][Next]_vars

\* Builds with phis.
NextPhi == Client(0 .. MaxPhis, MaxPhiBlocks, MaxPhiBody)

SpecPhi == Init /\ [][NextPhi]_vars

\* Builds without phis of a library compiled with debug assertions.
InitDebug == Init /\ debug

SpecDebug == InitDebug /\ [][Next]_vars

\* Builds with phis in more than one block, of a library compiled with
\* debug assertions.
NextPhiDebug == Client(0 .. MaxPhis, MaxPhiDebugBlocks, MaxPhiDebugBody)

SpecPhiDebug == InitDebug /\ [][NextPhiDebug]_vars

\* Builds that go on after a long run of Nops in the start block, which
\* has filled the instruction bytes up to MaxBytesLeft bytes short of the
\* cap, or to fewer; the log leaves these Nops out and numbers the
\* instructions from the end of the run.
MaxBytesLeft == 12

InitOverflow ==
    /\ BuilderInit
    /\ script = NoScript
    /\ instr_bytes_len \in
          {MAX_INSTR_BYTES - k : k \in {0, 1, 2, MaxBytesLeft}}
    /\ codec = NoCodec
    /\ NoGraph

SpecOverflow == InitOverflow /\ [][Next]_vars

\* ------------------------------------------------------------ slices
\* The private BuildSession::emit_instr and emit_end called with operand and
\* target slices of any length up to MaxSlice, as code of the crate can.
MaxSlice == 2

AnyDefLists == UNION {DefLists(n) : n \in 0 .. MaxSlice}

AnyTargets ==
    UNION {[1 .. n -> Targets({0})] : n \in 0 .. MaxSlice}

session_emit_instr ==
    \E op \in InstrOps : \E inputs \in AnyDefLists :
        EmitInstr("emit_instr", op, inputs, MaxBody)

session_emit_end ==
    \E op \in TerminalOps : \E inputs \in AnyDefLists :
        \E tgts \in AnyTargets : EmitEnd("emit_end", op, inputs, tgts)

NextSlices ==
    \/ decl_plain_block({0}, MaxBlocks)
    \/ def_block
    \/ session_emit_instr
    \/ session_emit_end
    \/ build

SpecSlices == Init /\ [][NextSlices]_vars

\* ------------------------------------------------------------ scenarios
\* A call of a scripted client: n is the phi count of a declaration or the
\* block of a def_block / def_loop.
Call(name, n, op, inputs, tgts) ==
    [call |-> name, n |-> n, op |-> op, inputs |-> inputs, tgts |-> tgts]
Simple(name, n) == Call(name, n, "none", <<>>, <<>>)
Emit(op, inputs) == Call("emit", 0, op, inputs, <<>>)
End(name, op, inputs, tgts) == Call(name, 0, op, inputs, tgts)
Tgt(blk, phis) == [blk |-> blk, phis |-> phis]

\* bin/test0.rs: blocks A = 1, B = 2, C = 3, E = 4 and D = 5, instructions
\* numbered in emission order from a = 0.
ScenarioE1 ==
    << Simple("decl_plain_block", 0), Simple("decl_plain_block", 0),
       Simple("decl_plain_block", 1), Simple("decl_plain_block", 1),
       Emit("Const", <<>>), Emit("Const", <<>>), Emit("Cmp", <<0, 1>>),
       End("branch", "Branch", <<2>>, <<Tgt(1, <<>>), Tgt(2, <<>>)>>),
       Simple("def_block", 1),
       Emit("Const", <<>>), Emit("Bini", <<0, 4>>),
       End("jump", "Jump", <<>>, <<Tgt(3, <<5>>)>>),
       Simple("def_block", 2),
       Simple("def_subgraph", 0),
       Simple("decl_plain_block", 0),
       Emit("Bini", <<0, 1>>), Emit("Const", <<>>), Emit("Cmp", <<7, 8>>),
       End("branch", "Branch", <<9>>, <<Tgt(3, <<8>>), Tgt(5, <<>>)>>),
       Simple("def_block", 5),
       Emit("Const", <<>>), Emit("Bini", <<8, 11>>),
       End("jump", "Jump", <<>>, <<Tgt(4, <<12>>)>>),
       Simple("end_subgraph", 0),
       Simple("def_block", 3),
       Simple("emit_phi", 0),
       End("jump", "Jump", <<>>, <<Tgt(4, <<14>>)>>),
       Simple("def_block", 4),
       Simple("emit_phi", 0),
       End("ret", "Ret", <<16>>, <<>>),
       Simple("build", 0) >>

\* bin/test1.rs: loop head L = 1, blocks B = 2 and C = 3.
ScenarioE2 ==
    << Simple("decl_loop_head", 1),
       Emit("Const", <<>>), Emit("Const", <<>>),
       End("jump", "Jump", <<>>, <<Tgt(1, <<0>>)>>),
       Simple("def_loop", 1),
       Simple("decl_plain_block", 0), Simple("decl_plain_block", 0),
       Simple("emit_phi", 0), Emit("Cmp", <<3, 1>>),
       End("branch", "Branch", <<4>>, <<Tgt(2, <<>>), Tgt(3, <<>>)>>),
       Simple("def_block", 2),
       Emit("Const", <<>>), Emit("Bini", <<3, 6>>),
       End("jump", "Jump", <<>>, <<Tgt(1, <<7>>)>>),
       Simple("def_block", 3),
       End("ret", "Ret", <<3>>, <<>>),
       Simple("end_loop", 0),
       Simple("build", 0) >>

\* A jump with an empty phi list to a block declared with one phi, and the
\* rest of a build.
ScenarioE3 ==
    << Simple("decl_plain_block", 1),
       End("jump", "Jump", <<>>, <<Tgt(1, <<>>)>>),
       Simple("def_block", 1),
       Simple("emit_phi", 0),
       End("ret", "Ret", <<1>>, <<>>),
       Simple("build", 0) >>

\* A jump back to a plain block that is Finished.
ScenarioE4 ==
    << Simple("decl_plain_block", 0), Simple("decl_plain_block", 0),
       End("jump", "Jump", <<>>, <<Tgt(1, <<>>)>>),
       Simple("def_block", 1),
       End("jump", "Jump", <<>>, <<Tgt(2, <<>>)>>),
       Simple("def_block", 2),
       End("jump", "Jump", <<>>, <<Tgt(1, <<>>)>>),
       Simple("build", 0) >>

InitScript ==
    /\ BuilderInit
    /\ instr_bytes_len = 0
    /\ script \in {[name |-> "E1", calls |-> ScenarioE1],
                   [name |-> "E2", calls |-> ScenarioE2],
                   [name |-> "E3", calls |-> ScenarioE3],
                   [name |-> "E4", calls |-> ScenarioE4]}
    /\ codec = NoCodec
    /\ NoGraph

\* The next call of the script is name.
Calls(name) == script.calls # <<>> /\ Head(script.calls).call = name

\* The next call of the scripted client.
NextScript ==
    \/ Calls("decl_plain_block")
          /\ DeclBlock("Plain", Head(script.calls).n, Len(decl_blocks) + 1)
    \/ Calls("decl_loop_head")
          /\ DeclBlock("Loop", Head(script.calls).n, Len(decl_blocks) + 1)
    \/ Calls("emit")
          /\ EmitInstr("emit_instr", Head(script.calls).op,
                       Head(script.calls).inputs, BodyLen + 1)
    \/ Calls("emit_phi") /\ emit_phi(BodyLen + 1)
    \/ \E name \in {"ret", "jump", "branch"} :
          Calls(name)
             /\ EmitEnd(name, Head(script.calls).op, Head(script.calls).inputs,
                        Head(script.calls).tgts)
    \/ Calls("def_block") /\ def_block
    \/ Calls("def_subgraph") /\ def_subgraph_open
    \/ Calls("end_subgraph") /\ def_subgraph_close
    \/ Calls("def_loop") /\ def_loop_open
    \/ Calls("end_loop") /\ def_loop_close
    \/ Calls("build") /\ build

SpecScript == InitScript /\ [][NextScript]_vars

\* -------------------------------------------------------------- LEB128
\* A u64 is four 16-bit limbs, least significant first (the model checker's
\* integers are narrower than u64).  U64Of(n) is the u64 of a small number.
U64Of(n) == <<n, 0, 0, 0>>

\* cur < 0x80
lt_0x80(cur) == cur[1] < 128 /\ cur[2] = 0 /\ cur[3] = 0 /\ cur[4] = 0

\* (cur & 0x7F) as u8
and_0x7F(cur) == cur[1] % 128

\* cur >> 7
shr_7(cur) ==
    << (cur[1] \div 128) + (cur[2] % 128) * 512,
       (cur[2] \div 128) + (cur[3] % 128) * 512,
       (cur[3] \div 128) + (cur[4] % 128) * 512,
       cur[4] \div 128 >>

\* (accum << 7) | g, for a 7-bit g; the bits shifted out of the u64 are lost
shl_7_or(accum, g) ==
    << ((accum[1] * 128) % 65536) + g,
       ((accum[2] * 128) % 65536) + (accum[1] \div 512),
       ((accum[3] * 128) % 65536) + (accum[2] \div 512),
       ((accum[4] * 128) % 65536) + (accum[3] \div 512) >>

\* v as u32
as_u32(v) == <<v[1], v[2], 0, 0>>

\* v <= u32::max_value() as u64
le_u32_max(v) == v[3] = 0 /\ v[4] = 0

\* The values the codec is run on: the small ones, and the ones around the
\* byte-count boundaries (2^14, 2^21, 2^32, 2^63, 2^64).
U64Values ==
    {U64Of(n) : n \in 0 .. MaxLebValue}
       \cup {U64Of(16383), U64Of(16384), <<65535, 31, 0, 0>>, <<0, 32, 0, 0>>,
             <<65535, 65535, 0, 0>>, <<0, 0, 1, 0>>,
             <<65535, 65535, 65535, 32767>>,
             <<65535, 65535, 65535, 65535>>}

U32Values == {v \in U64Values : le_u32_max(v)}

RECURSIVE write_leb128u(_, _)
\* A writer that appends the low 7-bit group only.
write_leb128u_OneByte(cur, vec) == Append(vec, and_0x7F(cur))

\* leb128::write_leb128u: vec after the call.
write_leb128u(cur, vec) ==
    IF lt_0x80(cur)
    THEN Append(vec, cur[1])
    ELSE write_leb128u(shr_7(cur), Append(vec, and_0x7F(cur) + 128))

\* The loop of leb128::read_leb128u from index i on: (i, accum) at the
\* break, or oob when the loop reads past the end of bytes.
RECURSIVE read_leb128u_loop(_, _, _)
read_leb128u_loop(bytes, i, accum) ==
    IF ~(i < Len(bytes))
    THEN [oob |-> TRUE, n |-> i, v |-> accum]
    ELSE LET b == bytes[i + 1]
             next == shl_7_or(accum, b % 128)
         IN  IF b < 128
             THEN [oob |-> FALSE, n |-> i + 1, v |-> next]
             ELSE read_leb128u_loop(bytes, i + 1, next)

\* leb128::read_leb128u
read_leb128u(bytes) == read_leb128u_loop(bytes, 0, U64Of(0))

\* The loop of Leb128U::send_to: the sink and nw at the break.
RECURSIVE Leb128U_send_loop(_, _, _)
Leb128U_send_loop(cur, sink, nw) ==
    IF lt_0x80(cur)
    THEN [sink |-> Append(sink, cur[1]), nw |-> nw + 1]
    ELSE Leb128U_send_loop(shr_7(cur), Append(sink, and_0x7F(cur) + 128),
                           nw + 1)

\* <Leb128U as ByteSerialize>::send_to
Leb128U_send_to(v, sink) == Leb128U_send_loop(v, sink, 0)

\* The loop of Leb128U::take_from, src.take() giving the bytes of src in
\* turn (a ByteSource does not run out): (nr, accum) at the break.
RECURSIVE Leb128U_take_loop(_, _, _)
Leb128U_take_loop(src, nr, accum) ==
    LET b == src[nr + 1]
        next == shl_7_or(accum, b % 128)
    IN  IF b < 128
        THEN [n |-> nr + 1, v |-> next]
        ELSE Leb128U_take_loop(src, nr + 1, next)

\* <Leb128U as ByteSerialize>::take_from
Leb128U_take_from(src) == Leb128U_take_loop(src, 0, U64Of(0))

\* ------------------------------------------------------------- payloads
\* An operation is its name and its payload value v (<<>> when it has none).
NoPayload == <<>>
MkOp(name, v) == [op |-> name, v |-> v]

\* What a take_from gives: the count and operation it returns, or a panic.
Taken(n, op) == [panic |-> FALSE, n |-> n, op |-> op]
TakePanic == [panic |-> TRUE, n |-> 0, op |-> MkOp("none", NoPayload)]

\* CmpKind / BiniKind as u8, and is_valid_code.
KindCodes == 1 .. 6
is_valid_code(code) == code >= 1 /\ code <= 6

NopOp_send_to(op, sink) == [sink |-> sink, nw |-> 0]
NopOp_take_from(src) == Taken(0, MkOp("Nop", NoPayload))

RetOp_send_to(op, sink) == [sink |-> sink, nw |-> 0]
RetOp_take_from(src) == Taken(0, MkOp("Ret", NoPayload))

JumpOp_send_to(op, sink) == [sink |-> sink, nw |-> 0]
JumpOp_take_from(src) == Taken(0, MkOp("Jump", NoPayload))

BranchOp_send_to(op, sink) == [sink |-> sink, nw |-> 0]
BranchOp_take_from(src) == Taken(0, MkOp("Branch", NoPayload))

PhiOp_send_to(op, sink) == Leb128U_send_to(op.v, sink)
PhiOp_take_from(src) ==
    LET r == Leb128U_take_from(src)
    IN  IF debug /\ ~le_u32_max(r.v)
        THEN TakePanic
        ELSE Taken(r.n, MkOp("Phi", as_u32(r.v)))

ConstBoolOp_send_to(op, sink) ==
    [sink |-> Append(sink, IF op.v THEN 0 ELSE 1), nw |-> 1]
ConstBoolOp_take_from(src) ==
    Taken(1, MkOp("ConstBool", src[1] = 0))

ConstInt32Op_send_to(op, sink) == Leb128U_send_to(op.v, sink)
ConstInt32Op_take_from(src) ==
    LET r == Leb128U_take_from(src)
    IN  IF ~le_u32_max(r.v)
        THEN TakePanic
        ELSE Taken(1, MkOp("ConstInt32", as_u32(r.v)))

ConstInt64Op_send_to(op, sink) == Leb128U_send_to(op.v, sink)
ConstInt64Op_take_from(src) ==
    LET r == Leb128U_take_from(src)
    IN  Taken(1, MkOp("ConstInt64", r.v))

CmpOp_send_to(op, sink) == [sink |-> Append(sink, op.v), nw |-> 1]
CmpOp_take_from(src) ==
    IF ~is_valid_code(src[1])
    THEN TakePanic
    ELSE Taken(1, MkOp("Cmp", src[1]))

BiniOp_send_to(op, sink) == [sink |-> Append(sink, op.v), nw |-> 1]
BiniOp_take_from(src) ==
    IF ~is_valid_code(src[1])
    THEN TakePanic
    ELSE Taken(1, MkOp("Bini", src[1]))

\* The operations a payload is written for.
OpValues ==
    {MkOp(name, NoPayload) : name \in {"Nop", "Ret", "Jump", "Branch"}}
       \cup {MkOp("Phi", v) : v \in U32Values}
       \cup {MkOp("ConstBool", b) : b \in BOOLEAN}
       \cup {MkOp("ConstInt32", v) : v \in U32Values}
       \cup {MkOp("ConstInt64", v) : v \in U64Values}
       \cup {MkOp(name, k) : name \in {"Cmp", "Bini"}, k \in KindCodes}

\* op.send_to(sink), by the type of op.
send_to(op, sink) ==
    CASE op.op = "Nop" -> NopOp_send_to(op, sink)
      [] op.op = "Ret" -> RetOp_send_to(op, sink)
      [] op.op = "Jump" -> JumpOp_send_to(op, sink)
      [] op.op = "Branch" -> BranchOp_send_to(op, sink)
      [] op.op = "Phi" -> PhiOp_send_to(op, sink)
      [] op.op = "ConstBool" -> ConstBoolOp_send_to(op, sink)
      [] op.op = "ConstInt32" -> ConstInt32Op_send_to(op, sink)
      [] op.op = "ConstInt64" -> ConstInt64Op_send_to(op, sink)
      [] op.op = "Cmp" -> CmpOp_send_to(op, sink)
      [] op.op = "Bini" -> BiniOp_send_to(op, sink)

\* OP::take_from(src), by the type OP the opcode stands for.
take_from(name, src) ==
    CASE name = "Nop" -> NopOp_take_from(src)
      [] name = "Ret" -> RetOp_take_from(src)
      [] name = "Jump" -> JumpOp_take_from(src)
      [] name = "Branch" -> BranchOp_take_from(src)
      [] name = "Phi" -> PhiOp_take_from(src)
      [] name = "ConstBool" -> ConstBoolOp_take_from(src)
      [] name = "ConstInt32" -> ConstInt32Op_take_from(src)
      [] name = "ConstInt64" -> ConstInt64Op_take_from(src)
      [] name = "Cmp" -> CmpOp_take_from(src)
      [] name = "Bini" -> BiniOp_take_from(src)

\* ----------------------------------------------------------- codec runs
\* A run of the codec: the function family fn ("leb128" for the free
\* functions of leb128.rs, "Leb128U", "op"), its argument, the bytes
\* written with the count the writer reported, and what was read back.
CodecRun(pc, fn, arg, bytes, nw, nr, out) ==
    [pc |-> pc, fn |-> fn, arg |-> arg, bytes |-> bytes, nw |-> nw,
     nr |-> nr, out |-> out]

\* Byte strings handed to read_leb128u that no writer produced: they end
\* on a byte with the continuation bit, or are empty.
TruncatedBytes == {<<>>, <<128>>, <<255, 129>>}

CodecInputs ==
    {CodecRun("input", "leb128", v, <<>>, 0, 0, NoPayload) : v \in U64Values}
       \cup {CodecRun("input", "Leb128U", v, <<>>, 0, 0, NoPayload) :
                v \in U64Values}
       \cup {CodecRun("input", "op", op, <<>>, 0, 0, NoPayload) :
                op \in OpValues}
       \cup {CodecRun("written", "bytes", NoPayload, bs, 0, 0, NoPayload) :
                bs \in TruncatedBytes}

InitCodec == BuilderInit /\ AnyClient /\ codec \in CodecInputs /\ NoGraph

BuilderUnchanged ==
    UNCHANGED <<debug, phase, decl_blocks, rpo_index, cur_block_id, instrs,
                total_phis, num_phis, subgraph_decls, sessions, fatal,
                instr_bytes_len, script>>

\* What a read past the end of the slice can give in a build without
\* debug assertions.
UndefinedReads == {[n |-> n, v |-> U64Of(g)] : n \in 1 .. 2, g \in 0 .. 1}

write_leb128u_call ==
    /\ codec.pc = "input"
    /\ codec.fn = "leb128"
    /\ LET vec == write_leb128u(codec.arg, <<>>)
       IN  codec' = [codec EXCEPT !.pc = "written", !.bytes = vec,
                                  !.nw = Len(vec)]
    /\ BuilderUnchanged
    /\ UNCHANGED graph_vars

read_leb128u_call ==
    /\ codec.pc = "written"
    /\ codec.fn \in {"leb128", "bytes"}
    /\ LET r == read_leb128u(codec.bytes)
       IN  IF ~r.oob
           THEN codec' = [codec EXCEPT !.pc = "read", !.nr = r.n,
                                       !.out = r.v]
           ELSE IF debug
           THEN codec' = [codec EXCEPT !.pc = "panic"]
           ELSE \E u \in UndefinedReads :
                   codec' = [codec EXCEPT !.pc = "read", !.nr = u.n,
                                          !.out = u.v]
    /\ BuilderUnchanged
    /\ UNCHANGED graph_vars

Leb128U_send_to_call ==
    /\ codec.pc = "input"
    /\ codec.fn = "Leb128U"
    /\ LET w == Leb128U_send_to(codec.arg, <<>>)
       IN  codec' = [codec EXCEPT !.pc = "written", !.bytes = w.sink,
                                  !.nw = w.nw]
    /\ BuilderUnchanged
    /\ UNCHANGED graph_vars

Leb128U_take_from_call ==
    /\ codec.pc = "written"
    /\ codec.fn = "Leb128U"
    /\ LET r == Leb128U_take_from(codec.bytes)
       IN  codec' = [codec EXCEPT !.pc = "read", !.nr = r.n, !.out = r.v]
    /\ BuilderUnchanged
    /\ UNCHANGED graph_vars

send_to_call ==
    /\ codec.pc = "input"
    /\ codec.fn = "op"
    /\ LET w == send_to(codec.arg, <<>>)
       IN  codec' = [codec EXCEPT !.pc = "written", !.bytes = w.sink,
                                  !.nw = w.nw]
    /\ BuilderUnchanged
    /\ UNCHANGED graph_vars

take_from_call ==
    /\ codec.pc = "written"
    /\ codec.fn = "op"
    /\ LET r == take_from(codec.arg.op, codec.bytes)
       IN  codec' = [codec EXCEPT !.pc = IF r.panic THEN "panic" ELSE "read",
                                  !.nr = r.n, !.out = r.op]
    /\ BuilderUnchanged
    /\ UNCHANGED graph_vars

NextCodec ==
    \/ write_leb128u_call
    \/ read_leb128u_call
    \/ Leb128U_send_to_call
    \/ Leb128U_take_from_call
    \/ send_to_call
    \/ take_from_call

SpecCodec == InitCodec /\ [][NextCodec]_vars

\* ----------------------------------------------------------- InstrStore
\* The InstrStore of a Graph.  instr_store.instr_bytes are the bytes after
\* the first instr_store.lead bytes of the stream, which are lead Nop
\* instructions of one byte each (a Nop has no payload and no inputs).
\* Every id of the model is below 2^28.
MaxStoreInstrs == 3

\* instr_bytes.len()
instr_bytes_count(st) == st.lead + Len(st.instr_bytes)

\* InstrStore::within_limits, max_len being MAX_INSTR_BYTES
within_limits(st) == instr_bytes_count(st) <= MAX_INSTR_BYTES

\* OP::opcode().into_u8(); of the opcodes of a typed operation the model
\* has the Int32 one.
into_u8(name) ==
    CASE name = "Nop" -> 1
      [] name = "Phi" -> 3
      [] name = "ConstBool" -> 6
      [] name = "ConstInt32" -> 7
      [] name = "ConstInt64" -> 8
      [] name = "Cmp" -> 10
      [] name = "Bini" -> 14
      [] name = "Ret" -> 18
      [] name = "Branch" -> 21
      [] name = "Jump" -> 22

\* Opcode::valid_u8
valid_u8(byte) == byte >= 1 /\ byte <= 22

\* Opcode::from_u8 with Opcode::specialize: the operation type of a valid
\* opcode byte.
from_u8(byte) ==
    CASE byte = 1 -> "Nop"
      [] byte \in 2 .. 5 -> "Phi"
      [] byte = 6 -> "ConstBool"
      [] byte = 7 -> "ConstInt32"
      [] byte = 8 -> "ConstInt64"
      [] byte \in 9 .. 12 -> "Cmp"
      [] byte \in 13 .. 16 -> "Bini"
      [] byte \in 17 .. 20 -> "Ret"
      [] byte = 21 -> "Branch"
      [] byte = 22 -> "Jump"

\* A u32 as u64, and (v as u32) of a u64 below 2^31.
u64_from(n) == <<n % 65536, n \div 65536, 0, 0>>
u32_of(v) == v[1] + 65536 * v[2]

RECURSIVE write_ids(_, _, _)
\* The loops of append_instr_impl and append_targets_impl that write the
\* ids from index i on, each with write_leb128u.
write_ids(ids, i, vec) ==
    IF i > Len(ids) THEN vec
    ELSE write_ids(ids, i + 1, write_leb128u(u64_from(ids[i]), vec))

\* An append_instr_impl that starts the stream anew.
append_instr_impl_Restart(vec, op, inputs) ==
    write_ids(inputs, 1, send_to(op, <<into_u8(op.op)>>).sink)

\* InstrStore::append_instr_impl: the bytes after the call.  Operation::
\* write_to is the send_to of the operation.
append_instr_impl(vec, op, inputs) ==
    write_ids(inputs, 1, send_to(op, Append(vec, into_u8(op.op))).sink)

RECURSIVE append_targets_impl(_, _, _)
\* InstrStore::append_targets_impl, from target i on.
append_targets_impl(vec, targets, i) ==
    IF i > Len(targets) THEN vec
    ELSE append_targets_impl(
             write_ids(targets[i].phis, 1,
                 write_leb128u(u64_from(Len(targets[i].phis)),
                     write_leb128u(u64_from(targets[i].blk), vec))),
             targets, i + 1)

\* What an emission returns.
NoneId == [some |-> FALSE, id |-> 0]
SomeId(id) == [some |-> TRUE, id |-> id]

\* An Operation::terminal that each terminal operation overrides.
Operation_terminal_Overridden(name) == name \in {"Ret", "Branch", "Jump"}

\* Operation::terminal, the associated function OP::terminal(): the default
\* of the trait, which no operation overrides.
Operation_terminal(name) == FALSE

\* InstrStore::emit_instr and InstrStore::emit_end (call names which;
\* targets is empty for emit_instr): the store and the log of what was
\* returned, or the panic of the debug_assert! on OP::terminal().
InstrStore_emit(call, op, inputs, targets) ==
    IF debug /\ (Operation_terminal(op.op) # (call = "emit_end"))
    THEN /\ graph_session' = [pc |-> "panic", last |-> call]
         /\ UNCHANGED <<instr_store, emit_log>>
    ELSE IF ~within_limits(instr_store)
    THEN /\ emit_log' = Append(emit_log,
                [op |-> op, inputs |-> inputs, targets |-> targets,
                 ret |-> NoneId])
         /\ UNCHANGED <<instr_store, graph_session>>
    ELSE LET id == instr_bytes_count(instr_store)
             after == [instr_store EXCEPT !.instr_bytes =
                          append_targets_impl(append_instr_impl(@, op, inputs),
                                              targets, 1)]
         IN  /\ instr_store' = after
             /\ emit_log' = Append(emit_log,
                    [op |-> op, inputs |-> inputs, targets |-> targets,
                     ret |-> IF ~within_limits(after) THEN NoneId
                             ELSE SomeId(id)])
             /\ UNCHANGED graph_session

\* InstrStore::instr_data for an id at or after the leading Nops.
instr_data(st, id) ==
    SubSeq(st.instr_bytes, id - st.lead + 1, Len(st.instr_bytes))

\* OP::take_from(src) finds the bytes it reads in src.
take_in_bounds(name, src) ==
    CASE name \in {"Nop", "Ret", "Jump", "Branch"} -> TRUE
      [] name \in {"ConstBool", "Cmp", "Bini"} -> Len(src) >= 1
      [] OTHER -> \E i \in 1 .. Len(src) : src[i] < 128

\* What a decoding step gives: a value, a panic, or (without debug
\* assertions) the undefined behaviour of an unchecked read past the end
\* of the stream or of an opcode byte that is no Opcode.
Decoded(val) == [st |-> "ok", val |-> val]
DecodePanic == [st |-> "panic", val |-> <<>>]
DecodeUnchecked == [st |-> IF debug THEN "panic" ELSE "undefined", val |-> <<>>]

\* Op::read_from: (1 + nb, op).  Operation::read_from is the take_from of
\* the operation.
Op_read_from(bytes) ==
    IF ~(Len(bytes) >= 1) THEN DecodeUnchecked
    ELSE IF ~valid_u8(bytes[1]) THEN DecodeUnchecked
    ELSE IF ~take_in_bounds(from_u8(bytes[1]), Tail(bytes)) THEN DecodeUnchecked
    ELSE LET r == take_from(from_u8(bytes[1]), Tail(bytes))
         IN  IF r.panic THEN DecodePanic
             ELSE Decoded([nb |-> 1 + r.n, op |-> r.op])

RECURSIVE InstrInputs_collect(_, _, _, _)
\* InstrInputs::next called until it gives None: the ids it gave and
\* bytes_read.
InstrInputs_collect(remaining, bytes, bytes_read, ids) ==
    IF remaining = 0
    THEN Decoded([ids |-> ids, bytes_read |-> bytes_read])
    ELSE LET r == read_leb128u(bytes)
         IN  IF r.oob THEN DecodeUnchecked
             ELSE InstrInputs_collect(remaining - 1,
                      SubSeq(bytes, r.n + 1, Len(bytes)),
                      bytes_read + r.n, Append(ids, u32_of(r.v)))

\* InstrInfo::inputs_iter run to its end.
inputs_iter(st, info) ==
    LET data == instr_data(st, info.defn)
    IN  InstrInputs_collect(num_operands(info.op.op),
            SubSeq(data, info.inputs_offset + 1, Len(data)), 0, <<>>)

\* InstrStore::read_instr_info
read_instr_info(st, instr_id) ==
    IF instr_id > instr_bytes_count(st) THEN DecodePanic
    ELSE LET r == Op_read_from(instr_data(st, instr_id))
         IN  IF r.st # "ok" THEN r
             ELSE LET info == [defn |-> instr_id, op |-> r.val.op,
                               inputs_offset |-> r.val.nb,
                               after_inputs_offset |-> 0]
                      it == inputs_iter(st, info)
                  IN  IF it.st # "ok" THEN it
                      ELSE Decoded([info EXCEPT !.after_inputs_offset =
                                       r.val.nb + it.val.bytes_read])

\* Op::terminal
terminal(op) == op.op \in {"Ret", "Branch", "Jump"}

\* An InstrInfo::next_defn that goes on after a terminal.
InstrInfo_next_defn_PastEnd(st, info) ==
    IF debug /\ ~(info.after_inputs_offset < Len(instr_data(st, info.defn)))
    THEN DecodePanic
    ELSE Decoded(SomeId(info.defn + info.after_inputs_offset))

\* InstrInfo::next_defn
InstrInfo_next_defn(st, info) ==
    IF terminal(info.op) THEN Decoded(NoneId)
    ELSE IF debug /\ ~(info.after_inputs_offset < Len(instr_data(st, info.defn)))
    THEN DecodePanic
    ELSE Decoded(SomeId(info.defn + info.after_inputs_offset))

\* The operations and the (target, phi list) pairs emitted into the store.
StoreOps ==
    {MkOp("Nop", NoPayload), MkOp("ConstBool", TRUE)}
       \cup {MkOp(name, v) : name \in {"Phi", "ConstInt32", "ConstInt64"},
                              v \in {U64Of(1), U64Of(128)}}
       \cup {MkOp(name, 1) : name \in {"Cmp", "Bini"}}
       \cup {MkOp(name, NoPayload) : name \in {"Ret", "Branch", "Jump"}}
StoreTargets == {<<>>, <<[blk |-> 1, phis |-> <<>>]>>}

\* The lists of n input ids, taken from the ids emissions have returned.
StoreInputs(n) ==
    IF n = 0 THEN {<<>>}
    ELSE [1 .. n -> {emit_log[i].ret.id :
                        i \in {j \in 1 .. Len(emit_log) : emit_log[j].ret.some}}]

\* The store is still being written: no terminal has been emitted.
Emitting ==
    /\ graph_session = NoRun
    /\ Len(emit_log) < MaxStoreInstrs
    /\ \A i \in 1 .. Len(emit_log) : ~terminal(emit_log[i].op)

\* What an out-of-bounds or invalid unchecked read can leave in cur_instr.
UndefinedInfos ==
    {[defn |-> d, op |-> MkOp(name, NoPayload), inputs_offset |-> 1,
      after_inputs_offset |-> 1] :
        d \in {0, instr_bytes_count(instr_store)}, name \in {"Nop", "Ret"}}

\* The GraphSession after the call last, with cur_instr as a read gave it;
\* ret is what the last next_defn returned and inputs what the last
\* cur_inputs gave.
Session(r, last, returned, given) ==
    CASE r.st = "ok" ->
            {[pc |-> "open", last |-> last, cur_instr |-> r.val,
              ret |-> returned, inputs |-> given]}
      [] r.st = "panic" -> {[pc |-> "panic", last |-> last]}
      [] r.st = "undefined" ->
            {[pc |-> "panic", last |-> last]}
               \cup {[pc |-> "open", last |-> last, cur_instr |-> u,
                      ret |-> returned, inputs |-> given] :
                        u \in UndefinedInfos}

NotIterated == <<-1>>

store_emit_instr ==
    /\ Emitting
    /\ \E op \in {o \in StoreOps : ~terminal(o)} :
          \E inputs \in StoreInputs(num_operands(op.op)) :
             InstrStore_emit("emit_instr", op, inputs, <<>>)
    /\ BuilderUnchanged
    /\ UNCHANGED <<codec, decl_run>>

store_emit_end ==
    /\ Emitting
    /\ \E op \in {o \in StoreOps : terminal(o)} :
          \E inputs \in StoreInputs(num_operands(op.op)) :
             \E targets \in StoreTargets :
                InstrStore_emit("emit_end", op, inputs, targets)
    /\ BuilderUnchanged
    /\ UNCHANGED <<codec, decl_run>>

\* Graph::enter_session with GraphSession::new on the block of the stream,
\* once its terminal is in the stream, and the lead next_defn calls that
\* take the cursor over the leading Nops, one byte each.
enter_session ==
    /\ graph_session = NoRun
    /\ emit_log # <<>>
    /\ terminal(emit_log[Len(emit_log)].op)
    /\ emit_log[Len(emit_log)].ret.some
    /\ graph_session' \in
          Session(read_instr_info(instr_store, instr_store.lead), "new",
                  NoneId, NotIterated)
    /\ BuilderUnchanged
    /\ UNCHANGED <<codec, instr_store, emit_log, decl_run>>

\* GraphSession::next_defn
next_defn ==
    /\ graph_session.pc = "open"
    /\ LET nxdef == InstrInfo_next_defn(instr_store, graph_session.cur_instr)
       IN  IF nxdef.st # "ok"
           THEN graph_session' = [pc |-> "panic", last |-> "next_defn"]
           ELSE IF ~nxdef.val.some
           THEN graph_session' = [graph_session EXCEPT !.ret = NoneId,
                                                       !.last = "next_defn"]
           ELSE graph_session' \in
                   Session(read_instr_info(instr_store, nxdef.val.id),
                           "next_defn", nxdef.val, NotIterated)
    /\ BuilderUnchanged
    /\ UNCHANGED <<codec, instr_store, emit_log, decl_run>>

\* GraphSession::cur_inputs, iterated to its end.
cur_inputs ==
    /\ graph_session.pc = "open"
    /\ LET it == inputs_iter(instr_store, graph_session.cur_instr)
       IN  IF it.st # "ok"
           THEN graph_session' \in
                   Session(it, "cur_inputs", graph_session.ret, NotIterated)
           ELSE graph_session' = [graph_session EXCEPT !.inputs = it.val.ids,
                                                       !.last = "cur_inputs"]
    /\ BuilderUnchanged
    /\ UNCHANGED <<codec, instr_store, emit_log, decl_run>>

\* InstrStore::new, and the stores with leading Nops: enough of them for
\* the ids to need two LEB128 bytes, and up to the cap.
InitStore ==
    /\ BuilderInit
    /\ AnyClient
    /\ codec = NoCodec
    /\ instr_store \in
          {[lead |-> n, instr_bytes |-> <<>>] :
              n \in {0, 127} \cup {MAX_INSTR_BYTES - k : k \in 0 .. 4}}
    /\ emit_log = <<>>
    /\ graph_session = NoRun
    /\ decl_run = NoRun

NextStore ==
    \/ store_emit_instr
    \/ store_emit_end
    \/ enter_session
    \/ next_defn
    \/ cur_inputs

SpecStore == InitStore /\ [][NextStore]_vars

\* ------------------------------------------------- long block tables
\* Declarations on a BlockStore whose decl_blocks has decl_run.len entries
\* (only the length of the table enters BlockStore::decl_block): the id the
\* last call returned, and how many calls were made.
MaxDeclCalls == 2

\* The table lengths the declarations start from: short tables, and tables
\* around 2^20 and around MAX_DECL_BLOCKS entries.
InitDecl ==
    /\ BuilderInit
    /\ AnyClient
    /\ codec = NoCodec
    /\ instr_store = [lead |-> 0, instr_bytes |-> <<>>]
    /\ emit_log = <<>>
    /\ graph_session = NoRun
    /\ decl_run \in
          {[pc |-> "table", len |-> n, id |-> Unset, calls |-> 0] :
              n \in (1 .. 20) \cup ((1048576 - 10) .. (1048576 + 10))
                       \cup ((MAX_DECL_BLOCKS - 10) .. MAX_DECL_BLOCKS)}

\* BlockStore::decl_block
decl_block_call ==
    /\ decl_run.pc \in {"table", "declared"}
    /\ decl_run.calls < MaxDeclCalls
    /\ IF decl_block_check(decl_run.len) = "ok"
       THEN decl_run' = [pc |-> "declared", len |-> decl_run.len + 1,
                         id |-> decl_run.len, calls |-> decl_run.calls + 1]
       ELSE decl_run' = [decl_run EXCEPT !.pc = "panic",
                                         !.calls = decl_run.calls + 1]
    /\ BuilderUnchanged
    /\ UNCHANGED <<codec, instr_store, emit_log, graph_session>>

SpecDecl == InitDecl /\ [][decl_block_call]_vars

\* ------------------------------------------------- start and loop numbers
\* u16::max_value()
U16Max == 65535

\* Declarations on a BlockStore that holds decl_run.len blocks, of which
\* starts are Start blocks and loops are Loop blocks; num_starts and
\* num_loops are its u16 counters.  decl is the block the last call pushed
\* and no the start or loop number in its variant.
Numbered(run, variant, num_phis_decl, no) ==
    [run EXCEPT !.pc = "declared",
                !.len = run.len + 1,
                !.calls = run.calls + 1,
                !.decl = NewBlock(run.len, variant, num_phis_decl, NoOwner),
                !.no = no]

\* The u16 addition `+= 1`: an overflow panics when the overflow checks of
\* a debug build are compiled in, and wraps otherwise.
incr_u16(n) ==
    IF n + 1 > U16Max /\ debug THEN [panic |-> TRUE, val |-> n]
    ELSE [panic |-> FALSE, val |-> (n + 1) % (U16Max + 1)]

\* The run after a panic of the call.
NumberPanic(run) == [run EXCEPT !.pc = "panic", !.calls = run.calls + 1]

\* The tables the declarations start from, as BlockStore::new and the
\* declarations after it leave them: the counters count the Start and Loop
\* blocks, few of them or nearly U16Max.
InitNumbers ==
    /\ BuilderInit
    /\ AnyClient
    /\ codec = NoCodec
    /\ instr_store = [lead |-> 0, instr_bytes |-> <<>>]
    /\ emit_log = <<>>
    /\ graph_session = NoRun
    /\ decl_run \in
          {[pc |-> "store", len |-> s + l + p, calls |-> 0,
            num_starts |-> s, starts |-> s, num_loops |-> l, loops |-> l,
            decl |-> NewBlock(0, "Start", 0, NoOwner), no |-> 0] :
              s \in {1, 2, U16Max - 1, U16Max},
              l \in {0, 1, U16Max - 1, U16Max},
              p \in {0, 1}}

NumberCall ==
    /\ decl_run.pc \in {"store", "declared"}
    /\ decl_run.calls < MaxDeclCalls

\* BlockStore::decl_plain_block
store_decl_plain_block ==
    /\ NumberCall
    /\ \E n \in 0 .. MaxPhis :
          decl_run' =
             IF decl_block_check(decl_run.len) # "ok" THEN NumberPanic(decl_run)
             ELSE Numbered(decl_run, "Plain", n, Unset)
    /\ BuilderUnchanged
    /\ UNCHANGED <<codec, instr_store, emit_log, graph_session>>

\* BlockStore::decl_start_block
store_decl_start_block ==
    /\ NumberCall
    /\ decl_run' =
          IF decl_block_check(decl_run.len) # "ok" THEN NumberPanic(decl_run)
          ELSE IF incr_u16(decl_run.num_starts).panic THEN NumberPanic(decl_run)
          ELSE [Numbered(decl_run, "Start", 0, decl_run.num_starts) EXCEPT
                   !.num_starts = incr_u16(decl_run.num_starts).val,
                   !.starts = decl_run.starts + 1]
    /\ BuilderUnchanged
    /\ UNCHANGED <<codec, instr_store, emit_log, graph_session>>

\* BlockStore::decl_loop_head
store_decl_loop_head ==
    /\ NumberCall
    /\ \E n \in 0 .. MaxPhis :
          decl_run' =
             IF ~(decl_run.num_loops < U16Max) THEN NumberPanic(decl_run)
             ELSE IF decl_block_check(decl_run.len) # "ok"
                  THEN NumberPanic(decl_run)
             ELSE [Numbered(decl_run, "Loop", n, decl_run.num_loops) EXCEPT
                      !.num_loops = incr_u16(decl_run.num_loops).val,
                      !.loops = decl_run.loops + 1]
    /\ BuilderUnchanged
    /\ UNCHANGED <<codec, instr_store, emit_log, graph_session>>

NextNumbers ==
    \/ store_decl_plain_block
    \/ store_decl_start_block
    \/ store_decl_loop_head

SpecNumbers == InitNumbers /\ [][NextNumbers]_vars

\* ------------------------------------------------------------ claims
\* Steps that enter a block: the block entered is the new last entry of
\* rpo_index.
EnterStep == phase' = "building" /\ Len(rpo_index') = Len(rpo_index) + 1
EnteredBlock == rpo_index'[Len(rpo_index')]

\* C1: over any sequence of BuildSession calls each block's state only moves
\* forward along Declared -> Entered -> Finished -> LoopComplete, one step at
\* a time, and only a Loop block reaches LoopComplete; so no block is
\* entered twice and none goes back to an earlier state.
C1_StateMovesForward ==
    [][phase' # "fatal" =>
        \A i \in 1 .. Len(decl_blocks) :
            \/ decl_blocks'[i].state = decl_blocks[i].state
            \/ /\ decl_blocks'[i].state = decl_blocks[i].state + 1
               /\ decl_blocks'[i].state = LoopComplete => is_loop(decl_blocks[i])]_vars

\* C2: whenever build(f) returns a Builder every declared block is Finished
\* and every Loop block is LoopComplete; a block left Declared makes
\* finalization fatal.
C2_BuiltIsComplete ==
    phase = "built" =>
        \A id \in BlockIds :
            /\ has_finished(get_block(id))
            /\ is_loop(get_block(id)) => has_loop_complete(get_block(id))

\* A build that returned with three blocks, one of them a loop head.
C2_Witness ==
    /\ phase = "built"
    /\ Len(decl_blocks) = MaxBlocks
    /\ \E id \in BlockIds : is_loop(get_block(id))

\* The target tgt of a terminal may not be targeted: it has been Entered and
\* is not a Loop block short of LoopComplete.
BadTarget(tgt) ==
    /\ has_entered(get_block(tgt.blk))
    /\ ~(is_loop(get_block(tgt.blk)) /\ ~has_loop_complete(get_block(tgt.blk)))

\* Steps that emit an instruction: it is the new last entry of instrs.
EmitStep == phase' = "building" /\ Len(instrs') = Len(instrs) + 1
Emitted == instrs'[Len(instrs')]

\* C3: a terminal one of whose targets has been Entered is fatal unless that
\* target is a Loop block that is not yet LoopComplete, and a terminal whose
\* targets are all still Declared is not refused for its targets (it is
\* fatal only when the current block is already Finished).
C3_TargetValidation ==
    [][/\ EmitStep =>
            \A i \in 1 .. Len(Emitted.tgts) : ~BadTarget(Emitted.tgts[i])
       /\ (phase' = "fatal" /\ fatal'.op \in {"jump", "branch"}
             /\ \A i \in 1 .. Len(fatal'.tgts) :
                   get_block(fatal'.tgts[i].blk).state = Declared)
            => fatal'.why = "CurFinished"]_vars

\* A jump or branch was refused because it targets a LoopComplete loop head.
C3_Witness ==
    /\ phase = "fatal"
    /\ fatal.op \in {"jump", "branch"}
    /\ fatal.why = "BackjumpComplete"

\* C4: every terminal that targets a block B carries a phi-argument list with
\* exactly B's declared num_phis entries (a terminal with another length is
\* fatal, so none is ever emitted).
C4_PhiArity ==
    phase # "fatal" =>
        \A i \in 1 .. Len(instrs) :
            \A j \in 1 .. Len(instrs[i].tgts) :
                Len(instrs[i].tgts[j].phis) = get_block(instrs[i].tgts[j].blk).num_phis

RECURSIVE CountListings(_, _, _)
\* Number of times the terminals log[i..] list block id as a target.
CountListings(log, id, i) ==
    IF i > Len(log) THEN 0
    ELSE Cardinality({j \in 1 .. Len(log[i].tgts) : log[i].tgts[j].blk = id})
         + CountListings(log, id, i + 1)

\* C5: during building and in the built graph each block's input-edge count
\* equals the number of times the terminals emitted so far list it as a
\* target, a branch that lists it twice counting twice.
C5_InputEdges ==
    phase # "fatal" =>
        \A id \in BlockIds :
            get_block(id).input_edges = CountListings(instrs, id, 1)

\* A branch was emitted that lists one block as both of its targets.
C5_Witness ==
    /\ phase # "fatal"
    /\ \E i \in 1 .. Len(instrs) :
          /\ instrs[i].op = "Branch"
          /\ instrs[i].tgts[1].blk = instrs[i].tgts[2].blk
          /\ get_block(instrs[i].tgts[1].blk).input_edges = 2

\* The blocks the innermost session declared that have not been Entered.
OwnUnentered ==
    {id \in BlockIds : get_block(id).owner = Depth /\ ~has_entered(get_block(id))}

\* C6: def_block(b) / def_loop(b) only goes through when b is the
\* earliest-declared block of the calling session that has not yet been
\* Entered (it is fatal otherwise), so a session's blocks are Entered in the
\* order it declared them.
C6_DefinitionOrder ==
    [][EnterStep =>
        /\ EnteredBlock \in OwnUnentered
        /\ \A id \in OwnUnentered : EnteredBlock <= id]_vars

\* C7: def_block(b) and def_loop(b, f) are fatal when the session's current
\* block is not yet Finished, and leave b Declared: no block is Entered by a
\* call made while the current block is unfinished.
C7_DefNeedsFinished ==
    [][(phase = "building" /\ ~has_finished(get_cur_block)) =>
        /\ ~EnterStep
        /\ \A i \in 1 .. Len(decl_blocks') :
              (i <= Len(decl_blocks) /\ decl_blocks[i].state = Declared)
                 => decl_blocks'[i].state = Declared]_vars

\* def_block or def_loop was refused because the current block was not
\* Finished.
C7_Witness ==
    /\ phase = "fatal"
    /\ fatal.op \in {"def_block", "def_loop"}
    /\ fatal.why = "CurUnfinished"

\* The positions in the log of the instructions of block id.
InstrsOf(id) == {i \in 1 .. Len(instrs) : instrs[i].blk = id}

\* C8: every emitter is fatal when the current block is already Finished, so
\* every Finished block holds exactly one terminal, as its last instruction.
C8_OneTerminalLast ==
    /\ [][EmitStep => ~has_finished(get_cur_block)]_vars
    /\ [](phase # "fatal" =>
            \A id \in BlockIds :
                has_finished(get_block(id)) =>
                    /\ Cardinality({i \in InstrsOf(id) :
                                       instrs[i].op \in TerminalOps}) = 1
                    /\ \A i \in InstrsOf(id) :
                          instrs[i].op \in TerminalOps =>
                              \A j \in InstrsOf(id) : j <= i)

\* C9: def_block(b) is fatal for a Loop block and def_loop(b, f) for any
\* other, so a Loop block is Entered only by def_loop (the step that also
\* opens the loop's scope) and a Plain or Start block only by def_block.
C9_LoopOnlyByDefLoop ==
    [][EnterStep =>
        (is_loop(get_block(EnteredBlock)) <=> Len(sessions') = Depth + 1)]_vars

\* def_block was refused because its block is a Loop block.
C9_Witness ==
    /\ phase = "fatal"
    /\ fatal.op = "def_block"
    /\ fatal.why = "IsLoop"

\* The blocks the innermost session declared.
OwnBlocks == {id \in BlockIds : get_block(id).owner = Depth}

\* Every block the innermost session declared has been Entered and all but
\* the last of them are Finished.
OwnComplete ==
    /\ \A id \in OwnBlocks : has_entered(get_block(id))
    /\ \A id \in OwnBlocks :
          (\E later \in OwnBlocks : later > id) => has_finished(get_block(id))

\* C10: the close of a def_subgraph scope is fatal if a block the child
\* declared has not been Entered or one other than the last is not
\* Finished, and is not fatal when every block the child declared has been
\* Entered and all but the last are Finished.
C10_SubgraphClose ==
    [][(phase = "building" /\ Depth > 1 /\ Top.kind = "sub") =>
        /\ (Len(sessions') = Depth - 1) => OwnComplete
        /\ (phase' = "fatal" /\ fatal'.op = "def_subgraph_close")
              => ~OwnComplete]_vars

\* Steps that open a child scope, and steps in which the innermost scope
\* closes and its def_subgraph / def_loop returns.
OpenStep == phase' = "building" /\ Len(sessions') = Depth + 1
CloseStep == phase' = "building" /\ Len(sessions') = Depth - 1

\* C11: a child session opened by def_subgraph starts with the parent's
\* current block as its current block, and when def_subgraph returns the
\* parent's current block is the child's current block at close (the block
\* entered last, or the inherited one), and that block is not entered again.
C11_SubgraphCurBlock ==
    [][/\ OpenStep =>
            sessions'[Depth + 1].cur_block = sessions'[Depth].cur_block
       /\ (OpenStep /\ ~EnterStep) =>
            sessions'[Depth + 1].cur_block = Top.cur_block
       /\ CloseStep =>
            /\ sessions'[Depth - 1].cur_block = Top.cur_block
            /\ Top.cur_block = cur_block_id
            /\ rpo_index' = rpo_index
            /\ decl_blocks'[Top.cur_block + 1].order = get_cur_block.order
            /\ decl_blocks'[Top.cur_block + 1].first_instr
                  = get_cur_block.first_instr]_vars

\* The root session has adopted, from a child scope that closed, a block
\* the child declared and entered.
C11_Witness ==
    /\ phase = "building"
    /\ Depth = 1
    /\ get_cur_block.owner = Closed
    /\ has_entered(get_cur_block)

\* C12: def_loop(L, f) enters L and runs the body in a child scope; its
\* close goes through only if the body's current block is Finished, and it
\* leaves L LoopComplete; L is not LoopComplete at any point while the body
\* is being built.
C12_LoopScope ==
    /\ [][/\ (OpenStep /\ sessions'[Depth + 1].kind = "loop") =>
               /\ EnterStep
               /\ EnteredBlock = sessions'[Depth + 1].loop_block
               /\ decl_blocks'[EnteredBlock + 1].state = Entered
          /\ (phase = "building" /\ Depth > 1 /\ Top.kind = "loop"
                /\ CloseStep) =>
               /\ has_finished(get_cur_block)
               /\ decl_blocks'[Top.loop_block + 1].state = LoopComplete]_vars
    /\ [](phase = "building" =>
            \A d \in 1 .. Depth :
                sessions[d].kind = "loop" =>
                    /\ has_entered(get_block(sessions[d].loop_block))
                    /\ ~has_loop_complete(get_block(sessions[d].loop_block)))

\* A loop whose body has several blocks has been closed.
C12_Witness ==
    /\ phase = "building"
    /\ Depth = 1
    /\ \E id \in BlockIds :
          /\ is_loop(get_block(id))
          /\ has_loop_complete(get_block(id))
          /\ get_cur_block.owner = Closed
          /\ Top.cur_block # id

\* C13: after a def_subgraph or def_loop scope has closed, no terminal that
\* targets a block declared inside that scope is emitted (the call is
\* fatal) and no such block gains an incoming edge; with the debug
\* assertions compiled in, every such block is one the target checks of
\* emit_end refuse.
C13_ClosedScopeTargets ==
    /\ [][phase' = "building" =>
            /\ EmitStep =>
                  \A j \in 1 .. Len(Emitted.tgts) :
                      get_block(Emitted.tgts[j].blk).owner # Closed
            /\ \A i \in 1 .. Len(decl_blocks) :
                  decl_blocks[i].owner = Closed =>
                      decl_blocks'[i].input_edges = decl_blocks[i].input_edges]_vars
    /\ []((phase = "building" /\ debug) =>
            \A id \in BlockIds :
                get_block(id).owner = Closed =>
                    target_check([blk |-> id, phis |-> <<>>]) # "ok")

\* A terminal has been emitted after a scope closed in which a block was
\* declared.
C13_Witness ==
    /\ phase = "building"
    /\ \E id \in BlockIds :
          /\ get_block(id).owner = Closed
          /\ \E i \in 1 .. Len(instrs) :
                /\ instrs[i].op \in TerminalOps
                /\ take_instr_no(i) > get_block(id).last_instr
                /\ has_finished(get_block(id))

\* C14: every input id of an emitted instruction, and every phi-argument id
\* on a terminal's target edges, is the id of an instruction emitted
\* earlier, so it is smaller than the instruction's own id.
C14_InputsEarlier ==
    phase # "fatal" =>
        \A i \in 1 .. Len(instrs) :
            /\ \A k \in 1 .. Len(instrs[i].inputs) :
                  instrs[i].inputs[k] \in 0 .. (i - 2)
            /\ \A j \in 1 .. Len(instrs[i].tgts) :
                  \A k \in 1 .. Len(instrs[i].tgts[j].phis) :
                      instrs[i].tgts[j].phis[k] \in 0 .. (i - 2)

\* A two-operand instruction and a terminal with a phi argument have been
\* emitted.
C14_Witness ==
    /\ phase # "fatal"
    /\ \E i \in 1 .. Len(instrs) : Len(instrs[i].inputs) = 2
    /\ \E i \in 1 .. Len(instrs) :
          \E j \in 1 .. Len(instrs[i].tgts) : Len(instrs[i].tgts[j].phis) > 0

\* C15: the rank a block gets when it is Entered is the number of blocks
\* Entered before it, so ranks increase in enter order, no two blocks share
\* one, and rpo_index holds each Entered block exactly once, at the position
\* equal to its rank.
C15_RpoRanks ==
    /\ [][EnterStep =>
            decl_blocks'[EnteredBlock + 1].order
               = Cardinality({id \in BlockIds : has_entered(get_block(id))})]_vars
    /\ [](phase # "fatal" =>
            /\ \A i \in 1 .. Len(rpo_index) :
                  get_block(rpo_index[i]).order = i - 1
            /\ \A id \in BlockIds :
                  Cardinality({i \in 1 .. Len(rpo_index) : rpo_index[i] = id})
                     = IF has_entered(get_block(id)) THEN 1 ELSE 0)

\* C16: after every call block 0 exists, is a Start block and has been
\* Entered; it is Entered at construction, before the client closure runs,
\* and is the root session's first current block.
C16_StartBlock ==
    /\ sessions[1].cur_block = 0
    /\ [](phase # "fatal" =>
            /\ Len(decl_blocks) >= 1
            /\ get_block(0).id = 0
            /\ is_start(get_block(0))
            /\ has_entered(get_block(0))
            /\ get_block(0).order = 0
            /\ Len(rpo_index) >= 1
            /\ rpo_index[1] = 0)

\* A build has returned with the start block Finished and other blocks
\* entered after it.
C16_Witness ==
    /\ phase = "built"
    /\ Len(rpo_index) = MaxEnters
    /\ has_finished(get_block(0))

\* Number of phis emitted into block id.
PhisIn(id) == Cardinality({i \in InstrsOf(id) : instrs[i].op = "Phi"})

\* C20: emit_phi is fatal when the current block already holds as many phis
\* as it declared, and the count of emitted phis is kept per block: it is
\* the number of phis of the current block, zero when a block is entered.
C20_PhiCount ==
    /\ [][(EmitStep /\ Emitted.op = "Phi") =>
            PhisIn(cur_block_id) < get_block(cur_block_id).num_phis]_vars
    /\ [](phase = "building" => take_phi_no = PhisIn(cur_block_id))

\* Bit j of the u64 v, its 7-bit group k and the number of groups up to its
\* highest non-zero one (one group for zero).
Bit(v, j) == IF j >= 64 THEN 0 ELSE (v[(j \div 16) + 1] \div (2 ^ (j % 16))) % 2
Group(v, k) ==
    Bit(v, 7 * k) + 2 * Bit(v, 7 * k + 1) + 4 * Bit(v, 7 * k + 2)
       + 8 * Bit(v, 7 * k + 3) + 16 * Bit(v, 7 * k + 4)
       + 32 * Bit(v, 7 * k + 5) + 64 * Bit(v, 7 * k + 6)
NumGroups(v) ==
    CHOOSE n \in 1 .. 10 :
        /\ \A k \in n .. 9 : Group(v, k) = 0
        /\ n = 1 \/ Group(v, n - 1) # 0

\* a < b as u64
LessU64(a, b) ==
    \E i \in 1 .. 4 : a[i] < b[i] /\ \A j \in (i + 1) .. 4 : a[j] = b[j]

\* C17: decoding the bytes the LEB128 writer produced for v returns (n, v),
\* n being the number of bytes written; for write_leb128u / read_leb128u
\* and for Leb128U's send_to / take_from.
C17_VarintRoundTrip ==
    (codec.pc \in {"read", "panic"} /\ codec.fn \in {"leb128", "Leb128U"}) =>
        /\ codec.pc = "read"
        /\ codec.nr = Len(codec.bytes)
        /\ codec.out = codec.arg

\* C18: write_leb128u appends one byte per 7-bit group of v, the least
\* significant group first, the continuation bit 0x80 on every byte but the
\* last: 1 byte for 0 and 127, 2 for 128 and 16383, 3 for 16384, 5 for
\* 2^32-1; every turn of its loop that does not break makes cur smaller.
C18_WriterGroups ==
    /\ (codec.fn = "leb128" /\ ~lt_0x80(codec.arg)) =>
          LessU64(shr_7(codec.arg), codec.arg)
    /\ (codec.fn = "leb128" /\ codec.pc \in {"written", "read"}) =>
          /\ Len(codec.bytes) = NumGroups(codec.arg)
          /\ \A k \in 0 .. (Len(codec.bytes) - 1) :
                codec.bytes[k + 1]
                   = Group(codec.arg, k)
                        + (IF k + 1 < Len(codec.bytes) THEN 128 ELSE 0)
          /\ codec.arg \in {U64Of(0), U64Of(127)} => Len(codec.bytes) = 1
          /\ codec.arg \in {U64Of(128), U64Of(16383)} => Len(codec.bytes) = 2
          /\ codec.arg = U64Of(16384) => Len(codec.bytes) = 3
          /\ codec.arg = <<65535, 65535, 0, 0>> => Len(codec.bytes) = 5

\* write_leb128u has written the five bytes of 2^32-1.
C18_Witness ==
    /\ codec.fn = "leb128"
    /\ codec.pc = "written"
    /\ codec.arg = <<65535, 65535, 0, 0>>
    /\ codec.bytes = <<255, 255, 255, 255, 15>>

\* C19: for every operation and payload value, take_from on the bytes that
\* send_to wrote gives an equal operation and a consumed count equal to
\* the number of bytes written.
C19_PayloadRoundTrip ==
    (codec.pc \in {"read", "panic"} /\ codec.fn = "op") =>
        /\ codec.pc = "read"
        /\ codec.out = codec.arg
        /\ codec.nr = codec.nw
        /\ codec.nw = Len(codec.bytes)

\* C21: every Finished block holds exactly the number of phi instructions
\* declared for it, and they come before every other instruction of the
\* block.
C21_PhisFirst ==
    phase # "fatal" =>
        \A id \in BlockIds :
            has_finished(get_block(id)) =>
                /\ PhisIn(id) = get_block(id).num_phis
                /\ \A i \in InstrsOf(id) : \A j \in InstrsOf(id) :
                      (instrs[i].op = "Phi" /\ instrs[j].op # "Phi") => i < j
\* The cursor of the GraphSession is at the k-th emitted instruction.
AtEmitted(k) ==
    /\ graph_session.pc = "open"
    /\ emit_log[k].ret.some
    /\ graph_session.cur_instr.defn = emit_log[k].ret.id

\* Steps of a next_defn call on an open GraphSession.
NextDefnStep == graph_session.pc = "open" /\ graph_session'.last = "next_defn"

\* C22: next_defn returns none exactly when the instruction under the
\* cursor is a terminal, and then leaves the cursor where it is, so that
\* every later call returns none as well.
C22_NoneAtTerminal ==
    [][NextDefnStep =>
          IF terminal(graph_session.cur_instr.op)
          THEN /\ graph_session'.pc = "open"
               /\ ~graph_session'.ret.some
               /\ graph_session'.cur_instr = graph_session.cur_instr
          ELSE graph_session'.pc = "open" => graph_session'.ret.some]_vars

\* next_defn has walked a stream of MaxStoreInstrs instructions to its
\* terminal and returned none there.
C22_Witness ==
    /\ Len(emit_log) = MaxStoreInstrs
    /\ AtEmitted(MaxStoreInstrs)
    /\ terminal(graph_session.cur_instr.op)
    /\ graph_session.last = "next_defn"
    /\ ~graph_session.ret.some

\* C23: on a non-terminal instruction next_defn returns the id that the
\* next emission returned and moves the cursor to it, whatever the
\* operation, its payload and its input ids.
C23_NextIsNextEmitted ==
    [][NextDefnStep =>
          \A k \in 1 .. Len(emit_log) :
              (AtEmitted(k) /\ graph_session.cur_instr.op.op = emit_log[k].op.op
                 /\ ~terminal(emit_log[k].op))
                 => /\ graph_session'.pc = "open"
                    /\ graph_session'.ret = emit_log[k + 1].ret
                    /\ graph_session'.cur_instr.defn = emit_log[k + 1].ret.id]_vars

\* C24: cur_inputs gives the input ids the instruction under the cursor
\* was emitted with, in order, and leaves the cursor as it was.
C24_InputsAsEmitted ==
    /\ \A k \in 1 .. Len(emit_log) :
          (AtEmitted(k) /\ graph_session.cur_instr.op.op = emit_log[k].op.op
             /\ graph_session.last = "cur_inputs")
             => graph_session.inputs = emit_log[k].inputs

\* The bytes an emission writes.
EncodedLen(e) ==
    Len(append_targets_impl(append_instr_impl(<<>>, e.op, e.inputs),
                            e.targets, 1))

\* C27: an InstrStore emission returns the length of the stream before the
\* write when the encoding fits under the cap and none when it does not,
\* and the stream is never longer than the cap afterwards.
C27_EmitWithinCap ==
    [][Len(emit_log') = Len(emit_log) + 1 =>
          LET e == emit_log'[Len(emit_log')]
              before == instr_bytes_count(instr_store)
          IN  /\ before + EncodedLen(e) <= MAX_INSTR_BYTES
                    => e.ret = SomeId(before)
              /\ before + EncodedLen(e) > MAX_INSTR_BYTES => ~e.ret.some
              /\ instr_bytes_count(instr_store') <= MAX_INSTR_BYTES]_vars

\* C28 as stated: every id handed out is below 2^20.
C28_LimitTwoToTheTwenty ==
    decl_run.pc = "declared" => decl_run.id < 1048576

\* C28, amended: every id a declaration hands out is below MAX_DECL_BLOCKS
\* = 2^24 - 1, and the declaration made when MAX_DECL_BLOCKS blocks are
\* declared, which would get that id, aborts without adding a block.
C28_DeclLimit ==
    [][decl_run'.calls = decl_run.calls + 1 =>
          IF decl_run.len < MAX_DECL_BLOCKS
          THEN /\ decl_run'.pc = "declared"
               /\ decl_run'.id = decl_run.len
               /\ decl_run'.id < MAX_DECL_BLOCKS
               /\ decl_run'.len = decl_run.len + 1
          ELSE /\ decl_run'.pc = "panic"
               /\ decl_run'.len = decl_run.len]_vars

\* The declaration on a table of MAX_DECL_BLOCKS blocks has panicked, after
\* the one before it was given the last id.
C28_Witness ==
    /\ decl_run.pc = "panic"
    /\ decl_run.len = MAX_DECL_BLOCKS
    /\ decl_run.id = MAX_DECL_BLOCKS - 1

\* C26: an emission that would take the instruction bytes past the cap is
\* not a fatal abort of the emitter the client called (it gives an absent
\* value).
C26_OverflowIsAbsent ==
    phase = "fatal" => fatal.why # "Overflow"

\* The script has run to its end without a panic.
Completed(name) ==
    script.name = name /\ script.calls = <<>> /\ phase = "built"

\* C29: scenario E1 builds: once its calls are made the build has
\* succeeded with 5 blocks, all Finished, and C and E have 2 input
\* edges each.
C29_ScenarioE1 ==
    (script.name = "E1" /\ (script.calls = <<>> \/ phase = "fatal"))
       => /\ phase = "built"
          /\ Len(decl_blocks) = 5
          /\ \A id \in BlockIds : has_finished(get_block(id))
          /\ get_block(3).input_edges = 2
          /\ get_block(4).input_edges = 2

C30_ScenarioE2 ==
    /\ script.name = "E2" => phase # "fatal"
    /\ (script.name = "E2" /\ script.calls = <<>>)
          => /\ phase = "built"
             /\ get_block(1).input_edges = 2
             /\ has_loop_complete(get_block(1))

\* Scenario E2 has run to its end.
C30_Witness ==
    /\ Completed("E2")
    /\ \E i \in 1 .. Len(instrs) :
          /\ instrs[i].op = "Jump"
          /\ instrs[i].blk = 2
          /\ instrs[i].tgts[1].blk = 1

\* The operand and target counts of the operations.
Arity(op) ==
    CASE op \in {"Cmp", "Bini"} -> <<2, 0>>
      [] op = "Ret" -> <<1, 0>>
      [] op = "Jump" -> <<0, 1>>
      [] op = "Branch" -> <<1, 2>>
      [] OTHER -> <<0, 0>>

\* C31, for the instructions of a build: every instruction emitted has as
\* many inputs and as many targets as its operation takes, and an emission
\* with a slice of another length is fatal.
C31_SliceLengths ==
    /\ [][EmitStep =>
            <<Len(Emitted.inputs), Len(Emitted.tgts)>> = Arity(Emitted.op)]_vars
    /\ [](phase = "fatal" /\ fatal.why \in {"OperandCount", "TargetCount"}
            => fatal.op \in {"emit_instr", "emit_end"})

\* An emission with a slice of the wrong length was fatal.
C31_SliceWitness == phase = "fatal" /\ fatal.why = "TargetCount"

\* C31: exactly Ret, Jump and Branch are terminal, so that the store's
\* emit_end, which wants a terminal operation, takes each of them, and its
\* emit_instr, which wants a non-terminal one, takes every other operation;
\* and every instruction encoded has as many inputs as its operation takes.
C31_OperationArity ==
    /\ graph_session.pc = "panic"
          => graph_session.last \notin {"emit_instr", "emit_end"}
    /\ \A i \in 1 .. Len(emit_log) :
          /\ Len(emit_log[i].inputs) =
                Arity(IF emit_log[i].op.op \in {"ConstBool", "ConstInt32",
                                                "ConstInt64"}
                      THEN "Const" ELSE emit_log[i].op.op)[1]
          /\ terminal(emit_log[i].op)
                <=> emit_log[i].op.op \in {"Ret", "Jump", "Branch"}

\* The blocks that have been Entered.
EnteredIds == {id \in BlockIds : has_entered(get_block(id))}

\* The numbers of the instructions emitted into block id.
NumbersOf(id) == {take_instr_no(j) : j \in InstrsOf(id)}

\* C32: instruction ids strictly increase in emission order; the
\* instructions of each Entered block are one run of emissions, from its
\* first_instr to its last_instr (none yet when last_instr is unset), and a
\* block Entered later has a first_instr above the last_instr of every
\* block Entered earlier.
C32_BlockRuns ==
    /\ [][EmitStep =>
            /\ \A j \in 1 .. Len(instrs) :
                  take_instr_no(j) < take_instr_no(Len(instrs'))
            /\ get_block(cur_block_id)'.last_instr = take_instr_no(Len(instrs'))
            /\ Emitted.blk = cur_block_id]_vars
    /\ [](phase # "fatal" =>
            /\ \A id \in EnteredIds :
                  LET b == get_block(id)
                  IN  IF b.last_instr = Unset
                      THEN NumbersOf(id) = {} /\ ~has_finished(b)
                      ELSE /\ b.first_instr <= b.last_instr
                           /\ NumbersOf(id) = b.first_instr .. b.last_instr
            /\ \A id \in BlockIds \ EnteredIds : NumbersOf(id) = {}
            /\ \A e, l \in EnteredIds :
                  get_block(e).order < get_block(l).order
                     => /\ get_block(e).last_instr # Unset
                        /\ get_block(e).last_instr < get_block(l).first_instr)

\* C33: each decl_plain_block / decl_start_block / decl_loop_head call
\* that returns has added, behind the blocks there were, one block in state
\* Declared with input-edge count 0 whose id is the number of blocks
\* declared before it; the start number of a Start block is the number of
\* Start blocks declared before it and the loop number of a Loop block the
\* number of Loop blocks declared before it.
C33_DenseNumbers ==
    [][decl_run'.pc = "declared" =>
          /\ decl_run'.len = decl_run.len + 1
          /\ decl_run'.decl.id = decl_run.len
          /\ decl_run'.decl.state = Declared
          /\ decl_run'.decl.input_edges = 0
          /\ is_start(decl_run'.decl) => decl_run'.no = decl_run.starts
          /\ is_loop(decl_run'.decl) => decl_run'.no = decl_run.loops]_vars

\* C33, in a build: a declaration adds one Declared block with no input
\* edges and the next id behind the blocks there are, and changes none of
\* them.
C33_DenseIds ==
    [][(phase' = "building" /\ Len(decl_blocks') # Len(decl_blocks)) =>
          /\ Len(decl_blocks') = Len(decl_blocks) + 1
          /\ SubSeq(decl_blocks', 1, Len(decl_blocks)) = decl_blocks
          /\ decl_blocks'[Len(decl_blocks')].id = Len(decl_blocks)
          /\ decl_blocks'[Len(decl_blocks')].state = Declared
          /\ decl_blocks'[Len(decl_blocks')].input_edges = 0]_vars

\* How often the target list tgts names block id.
Listings(tgts, id) == Cardinality({j \in 1 .. Len(tgts) : tgts[j].blk = id})

\* Block b with the fields an emission into it sets put to those of c.
SameButRun(b, c) ==
    [b EXCEPT !.state = c.state, !.last_instr = c.last_instr,
              !.input_edges = c.input_edges]

\* C34: a successful terminal emission marks the current block Finished
\* with the terminal's id as its last_instr and adds one input edge to a
\* block for each time the terminal lists it; it changes nothing else of any
\* block (no other block's state, no other input-edge count), nor the rpo
\* list, nor the current-block id.
C34_TerminalFrame ==
    [][(EmitStep /\ Emitted.op \in TerminalOps) =>
          /\ Len(decl_blocks') = Len(decl_blocks)
          /\ get_block(cur_block_id)'.state = Finished
          /\ get_block(cur_block_id)'.last_instr = take_instr_no(Len(instrs'))
          /\ \A i \in 1 .. Len(decl_blocks) :
                /\ decl_blocks'[i].input_edges =
                      decl_blocks[i].input_edges + Listings(Emitted.tgts, i - 1)
                /\ i # cur_block_id + 1 =>
                      /\ decl_blocks'[i].state = decl_blocks[i].state
                      /\ decl_blocks'[i].last_instr = decl_blocks[i].last_instr
                /\ SameButRun(decl_blocks'[i], decl_blocks[i]) = decl_blocks[i]
          /\ rpo_index' = rpo_index
          /\ cur_block_id' = cur_block_id]_vars

\* A branch that lists one block twice has finished the current block and
\* given that block two input edges, another block standing by.
C34_Witness ==
    /\ phase = "building"
    /\ instrs # <<>>
    /\ LET e == instrs[Len(instrs)]
       IN  /\ e.op = "Branch"
           /\ e.tgts[1].blk = e.tgts[2].blk
           /\ get_block(e.tgts[1].blk).input_edges = 2
           /\ get_block(e.blk).state = Finished
           /\ get_block(e.blk).last_instr = take_instr_no(Len(instrs))
           /\ \E id \in BlockIds : id # e.blk /\ id # e.tgts[1].blk

\* C35: a successful non-terminal emission (nop, const, cmp, bini, phi)
\* appends one instruction and sets the current block's last_instr to its
\* id; no block's state, input-edge count or rank changes, nothing else
\* of any block does, and the current block stays Entered and not Finished.
C35_BodyFrame ==
    [][(EmitStep /\ Emitted.op \notin TerminalOps) =>
          /\ Len(instrs') = Len(instrs) + 1
          /\ SubSeq(instrs', 1, Len(instrs)) = instrs
          /\ Len(decl_blocks') = Len(decl_blocks)
          /\ get_block(cur_block_id)'.last_instr = take_instr_no(Len(instrs'))
          /\ get_block(cur_block_id)'.state = Entered
          /\ \A i \in 1 .. Len(decl_blocks) :
                /\ decl_blocks'[i].state = decl_blocks[i].state
                /\ decl_blocks'[i].input_edges = decl_blocks[i].input_edges
                /\ decl_blocks'[i].order = decl_blocks[i].order
                /\ i # cur_block_id + 1 => decl_blocks'[i] = decl_blocks[i]
                /\ SameButRun(decl_blocks'[i], decl_blocks[i]) = decl_blocks[i]
          /\ rpo_index' = rpo_index
          /\ cur_block_id' = cur_block_id]_vars

\* A phi has gone into a block that has an input edge, after the terminal
\* that finished another block.
C35_Witness ==
    /\ phase = "building"
    /\ Len(instrs) >= 2
    /\ LET e == instrs[Len(instrs)]
       IN  /\ e.op = "Phi"
           /\ get_block(e.blk).state = Entered
           /\ get_block(e.blk).input_edges > 0
           /\ get_block(e.blk).last_instr = take_instr_no(Len(instrs))
           /\ \E id \in BlockIds : get_block(id).state = Finished

\* C36: the instruction byte stream is append-only: no step shortens it or
\* changes a byte written before, so that the id an emission returned
\* keeps denoting the bytes that emission wrote, while the store is written
\* and while a GraphSession reads it.
C36_AppendOnly ==
    /\ [][/\ instr_store'.lead = instr_store.lead
          /\ Len(instr_store'.instr_bytes) >= Len(instr_store.instr_bytes)
          /\ SubSeq(instr_store'.instr_bytes, 1, Len(instr_store.instr_bytes))
                = instr_store.instr_bytes]_vars
    /\ [](\A k \in 1 .. Len(emit_log) :
            emit_log[k].ret.some =>
               /\ Len(instr_data(instr_store, emit_log[k].ret.id))
                     >= EncodedLen(emit_log[k])
               /\ SubSeq(instr_data(instr_store, emit_log[k].ret.id), 1,
                         EncodedLen(emit_log[k]))
                  = append_targets_impl(
                       append_instr_impl(<<>>, emit_log[k].op, emit_log[k].inputs),
                       emit_log[k].targets, 1))

\* A GraphSession has read a stream of MaxStoreInstrs instructions with
\* two-byte ids to its terminal.
C36_Witness ==
    /\ Len(emit_log) = MaxStoreInstrs
    /\ \A k \in 1 .. Len(emit_log) : emit_log[k].ret.some
    /\ emit_log[1].ret.id >= 127
    /\ emit_log[Len(emit_log)].inputs # <<>>
    /\ graph_session.pc = "open"
    /\ graph_session.last = "cur_inputs"
    /\ AtEmitted(MaxStoreInstrs)

\* Block b can no longer be legally targeted: a Plain or Start block that
\* is Entered, a Loop block that is LoopComplete.
Sealed(b) == IF is_loop(b) THEN has_loop_complete(b) ELSE has_entered(b)

\* C37: a block's input-edge count stops changing once the block can no
\* longer be legally targeted: from the point where a Plain or Start block
\* is Entered, or a Loop block LoopComplete, the block stays so and its
\* count stays what it was, in every step of a build that goes on (0 for
\* the start block).
C37_EdgesSealed ==
    [][phase' # "fatal" =>
          /\ \A id \in BlockIds :
                Sealed(get_block(id)) =>
                   /\ Sealed(decl_blocks'[id + 1])
                   /\ decl_blocks'[id + 1].input_edges
                         = get_block(id).input_edges
          /\ decl_blocks'[1].input_edges = 0]_vars

\* The entries of subgraph_decls the innermost session treats as its
\* sub-region.
OwnRegion ==
    SubSeq(subgraph_decls, Top.subgraph_start + 1, Len(subgraph_decls))

\* C38: the entries of subgraph_decls from the session's subgraph_start on
\* are exactly the blocks that session declared, in the order it declared
\* them, also after nested sessions have declared blocks of their own.
C38_OwnRegion ==
    phase = "building" =>
       /\ \A i \in 1 .. Len(OwnRegion) :
             get_block(OwnRegion[i]).owner = Depth
       /\ \A id \in OwnBlocks : \E i \in 1 .. Len(OwnRegion) : OwnRegion[i] = id
       /\ \A i, j \in 1 .. Len(OwnRegion) : i < j => OwnRegion[i] < OwnRegion[j]

\* C38, what follows from it: a def_block / def_loop of the earliest block
\* the session declared and has not Entered is not refused for being out of
\* turn, and the close of a scope all of whose own blocks are Entered is not
\* refused as incomplete.
C38_StillDefinable ==
    [][phase' = "fatal" =>
          /\ (fatal'.why = "NotNextBlock" /\ OwnUnentered # {})
                => \E id \in OwnUnentered : id < fatal'.blk \/ fatal'.blk < id
          /\ fatal'.why = "SubgraphIncomplete" => OwnUnentered # {}]_vars

\* C39: wherever the client can call an emitter, the innermost session's
\* cur_block is the BlockStore's cur_block_id, so an emitted instruction is
\* recorded in the block whose Finished state the session examined, and a
\* terminal finishes that block and changes the state of no other; across
\* def_block, def_loop and the opening and closing of nested scopes.
C39_CurBlockIsStoreBlock ==
    [][/\ Building => Top.cur_block = cur_block_id
       /\ Building' => Top'.cur_block = cur_block_id'
       /\ (Building' /\ Len(instrs') = Len(instrs) + 1) =>
             /\ ~has_finished(get_cur_block)
             /\ instrs'[Len(instrs')].blk = Top.cur_block
             /\ decl_blocks'[Top.cur_block + 1].last_instr = Len(instrs)
             /\ decl_blocks'[Top.cur_block + 1].state # Entered
                   <=> instrs'[Len(instrs')].op \in TerminalOps
             /\ \A id \in BlockIds \ {Top.cur_block} :
                   /\ decl_blocks'[id + 1].state = get_block(id).state
                   /\ decl_blocks'[id + 1].last_instr = get_block(id).last_instr
      ]_vars

\* The root session, back from a nested scope that declared and entered a
\* block, has emitted a value into that block and then finished it.
C39_Witness ==
    /\ Building
    /\ Depth = 1
    /\ Top.cur_block = cur_block_id
    /\ get_cur_block.owner = Closed
    /\ has_finished(get_cur_block)
    /\ \E j \in 1 .. Len(instrs) :
          instrs[j].blk = cur_block_id /\ instrs[j].owner = 1

\* The blocks that are Entered but not Finished.
OpenBlocks == {id \in BlockIds : get_block(id).state = Entered}

\* C40: at any time at most one block is Entered but not Finished, and if
\* there is one it is the current block; every block Entered earlier than
\* the current block (of a smaller order) is Finished or LoopComplete.
C40_OneOpenBlock ==
    phase # "fatal" =>
       /\ Cardinality(OpenBlocks) <= 1
       /\ OpenBlocks \subseteq {cur_block_id}
       /\ has_entered(get_block(cur_block_id))
       /\ \A id \in BlockIds :
             (/\ has_entered(get_block(id))
              /\ get_block(id).order < get_block(cur_block_id).order)
                => has_finished(get_block(id))

\* The block after a completed loop is being defined: the start block is
\* Finished, the loop head LoopComplete, the current block alone is open.
C40_Witness ==
    /\ Building
    /\ Len(rpo_index) >= 3
    /\ OpenBlocks = {cur_block_id}
    /\ \E id \in BlockIds : has_loop_complete(get_block(id))
    /\ \A id \in BlockIds : has_entered(get_block(id))

====
